---- MODULE Spec2Model ----
(***************************************************************************)
(* A model of figma_to_html.py: the Color record, the style resolvers of   *)
(* FigmaToHTMLConverter, the tree walker node_to_html, the collectors      *)
(* find_frames / collect_image_nodes and the conversion run                *)
(* main -> generate_html.                                                  *)
(*                                                                         *)
(* Representation.                                                         *)
(*  - A Python dict is a TLA+ function whose DOMAIN is the set of keys     *)
(*    that are present; d.get(k, default) is Get(d, k, default).           *)
(*  - A Python str is a TLA+ string, built with \o as the f-strings of the *)
(*    source build it.                                                     *)
(*  - A float in [0, 1] (colour channel, opacity, stop position) is an     *)
(*    integer numerator over Unit = 8; a Color's alpha, which the source   *)
(*    multiplies once by an opacity, is a numerator over Unit * Unit.      *)
(*    Dyadic fractions are exact in binary floating point, so the          *)
(*    arithmetic below is the arithmetic of the floats.                    *)
(*  - The JSON tree is flattened: a document is a function from node       *)
(*    indices 1..n to node dicts, and a node's "children" is the sequence  *)
(*    of the indices of its children.                                      *)
(***************************************************************************)
EXTENDS Integers, Sequences, FiniteSets, TLC

VARIABLES
    arg,            \* the input of the call of a resolver / collector / walker
    ret,            \* what that call returned or raised
    image_fills,    \* FigmaToHTMLConverter.image_fills: node id -> URL
    fonts_used,     \* FigmaToHTMLConverter.fonts_used
    pc,             \* the position of main / generate_html
    file_data,      \* generate_html: the fetched document
    frame_name,     \* generate_html: the requested frame name (args.frame)
    frames,         \* generate_html: find_frames(document)
    selected_frame, \* generate_html: index of the selected frame
    image_nodes,    \* generate_html: collected image node ids
    body_html,      \* generate_html: node_to_html(selected_frame)
    html,           \* generate_html: the document build_complete_html returned
    output_file,    \* the file main writes (args.output)
    exit_code,      \* the exit status of main
    events          \* the run's exchanges with the outside, in order: prints,
                    \* requests and their status codes, the write

vars == <<arg, ret, image_fills, fonts_used, pc, file_data, frame_name, frames,
          selected_frame, image_nodes, body_html, html, output_file, exit_code, events>>

(***************************************************************************)
(* Bounds of the model.                                                    *)
(***************************************************************************)
\* colour channels are numerators -1..MaxChan over Unit (values above Unit
\* and below 0 are the out-of-range inputs the source does not clamp)
MaxChan == 9
\* alphas are numerators 0..MaxAlpha over Unit
MaxAlpha == 9
\* the depth at which the interpreter gives up a recursion (RecursionError);
\* CPython's limit is finite, and the outcome is the same for every limit
RecursionLimit == 5
\* the longest fill list
MaxFills == 3
\* the largest corner radius
MaxRadius == 2
\* the number of nodes of a document
NumNodes == 3
\* the number of nodes of a document of SpecFrames
NumFrameNodes == 4
\* the number of nodes of a document of SpecContainer
NumContainerNodes == 2
\* the number of nodes of a document of SpecInstance
NumInstanceNodes == 3
\* the number of nodes of a file of SpecReuse, and of calls of generate_html
NumReuseNodes == 3
MaxRuns == 2

Unit == 2 * 2 * 2
Unit2 == Unit * Unit

(***************************************************************************)
(* Python built-ins used by the source.                                    *)
(***************************************************************************)
NoneValue == "None"

\* {}
EmptyDict == <<>>

Has(d, k) == k \in DOMAIN d

Get(d, k, default) == IF k \in DOMAIN d THEN d[k] ELSE default

Abs(n) == IF n < 0 THEN 0 - n ELSE n

\* int(num / den): truncation toward zero
IntTrunc(num, den) == IF num >= 0 THEN num \div den ELSE 0 - ((0 - num) \div den)

HexDigit(d) == SubSeq("0123456789abcdef", d + 1, d + 1)

RECURSIVE HexDigits(_)
HexDigits(n) == IF n < 16 THEN HexDigit(n) ELSE HexDigits(n \div 16) \o HexDigit(n % 16)

\* format(n, "02x")
Hex02(n) ==
    IF n < 0 THEN "-" \o HexDigits(0 - n)
    ELSE IF n < 16 THEN "0" \o HexDigit(n)
    ELSE HexDigits(n)

RECURSIVE StripZeros(_)
StripZeros(s) ==
    IF Len(s) > 1 /\ SubSeq(s, Len(s), Len(s)) = "0"
    THEN StripZeros(SubSeq(s, 1, Len(s) - 1))
    ELSE s

RECURSIVE PadLeft(_, _)
PadLeft(s, width) == IF Len(s) >= width THEN s ELSE PadLeft("0" \o s, width)

\* str(x) / f"{x}" of the float x = n / Unit2, n >= 0: the shortest decimal
\* that reads back as x, which for a dyadic fraction is its exact expansion
FloatStr(n) ==
    ToString(n \div Unit2) \o "."
        \o StripZeros(PadLeft(ToString((n % Unit2) * 15625), 6))

\* "sep".join(parts)
RECURSIVE Join(_, _)
Join(sep, parts) ==
    IF parts = <<>> THEN ""
    ELSE IF Len(parts) = 1 THEN parts[1]
    ELSE parts[1] \o sep \o Join(sep, Tail(parts))

(***************************************************************************)
(* class Color                                                             *)
(***************************************************************************)
\* Color(r, g, b, a): r, g, b over Unit, a over Unit2
Color(r, g, b, a) == [r |-> r, g |-> g, b |-> b, a |-> a]

\* the bug a rounding conversion would be: int(round(x * 255))
Channel255_rounding(c) == IntTrunc(2 * c * 255 + (IF c >= 0 THEN Unit ELSE 0 - Unit), 2 * Unit)

\* int(self.r * 255)
Channel255(c) == IntTrunc(c * 255, Unit)

to_css(self) ==
    LET r == Channel255(self.r)
        g == Channel255(self.g)
        b == Channel255(self.b)
    IN  IF self.a < Unit2
        THEN "rgba(" \o ToString(r) \o ", " \o ToString(g) \o ", " \o ToString(b)
                 \o ", " \o FloatStr(self.a) \o ")"
        ELSE "rgb(" \o ToString(r) \o ", " \o ToString(g) \o ", " \o ToString(b) \o ")"

to_hex(self) ==
    LET r == Channel255(self.r)
        g == Channel255(self.g)
        b == Channel255(self.b)
    IN  "#" \o Hex02(r) \o Hex02(g) \o Hex02(b)

(***************************************************************************)
(* More built-ins: str.lower(), the "in" test on strings.                  *)
(***************************************************************************)
UpperCase == "ABCDEFGHIJKLMNOPQRSTUVWXYZ"

LowerCase == "abcdefghijklmnopqrstuvwxyz"

LowerChar(c) ==
    IF \E i \in 1..26 : SubSeq(UpperCase, i, i) = c
    THEN LET i == CHOOSE j \in 1..26 : SubSeq(UpperCase, j, j) = c
         IN  SubSeq(LowerCase, i, i)
    ELSE c

\* s.lower()
RECURSIVE Lower(_)
Lower(s) ==
    IF s = "" THEN ""
    ELSE LowerChar(SubSeq(s, 1, 1)) \o Lower(SubSeq(s, 2, Len(s)))

\* sub in s
Contains(s, sub) ==
    \E i \in 1..(Len(s) - Len(sub) + 1) : SubSeq(s, i, i + Len(sub) - 1) = sub

\* s.replace(" ", "+")
RECURSIVE ReplaceSpaces(_)
ReplaceSpaces(s) ==
    IF s = "" THEN ""
    ELSE (IF SubSeq(s, 1, 1) = " " THEN "+" ELSE SubSeq(s, 1, 1))
             \o ReplaceSpaces(SubSeq(s, 2, Len(s)))

\* an insertion-ordered dict of str -> str is a sequence of <<key, value>>
DictHas(d, k) == \E i \in 1..Len(d) : d[i][1] = k

DictGet(d, k) == d[CHOOSE i \in 1..Len(d) : d[i][1] = k][2]

\* d[k] = v
DictSet(d, k, v) ==
    IF DictHas(d, k)
    THEN [i \in 1..Len(d) |-> IF d[i][1] = k THEN <<k, v>> ELSE d[i]]
    ELSE Append(d, <<k, v>>)

\* "; ".join(f"{k}: {v}" for k, v in styles.items())
StyleStr(d) == Join("; ", [i \in 1..Len(d) |-> d[i][1] \o ": " \o d[i][2]])

(***************************************************************************)
(* Results of calls.                                                       *)
(***************************************************************************)
Return(v) == [kind |-> "return", value |-> v]

Raise(e) == [kind |-> "raise", exc |-> e]

NoCall == [op |-> "none"]

(***************************************************************************)
(* The style resolvers of FigmaToHTMLConverter.                            *)
(***************************************************************************)
parse_color(color_data) ==
    Color(Get(color_data, "r", 0), Get(color_data, "g", 0), Get(color_data, "b", 0),
          Unit * Get(color_data, "a", Unit))

\* math.atan2(dy, dx) * 180 / math.pi, formatted with :.1f after adding 90,
\* for handle coordinates in {0, 1}: the angles are multiples of 45 degrees
AngleStr(dy, dx) ==
    LET deg == CASE dy = 0 /\ dx >= 0 -> 0
                 [] dy = 0 /\ dx < 0 -> 180
                 [] dy > 0 /\ dx > 0 -> 45
                 [] dy > 0 /\ dx = 0 -> 90
                 [] dy > 0 /\ dx < 0 -> 135
                 [] dy < 0 /\ dx > 0 -> 0 - 45
                 [] dy < 0 /\ dx = 0 -> 0 - 90
                 [] dy < 0 /\ dx < 0 -> 0 - 135
    IN  ToString(deg + 90) \o ".0"

\* f"{position * 100:.1f}" for a position over Unit: p * 12.5 is exact
PercentStr(p) == ToString((p * 125) \div 10) \o "." \o ToString((p * 125) % 10)

parse_gradient(gradient_fill) ==
    LET stops == Get(gradient_fill, "gradientStops", <<>>)
        handles == Get(gradient_fill, "gradientHandlePositions", <<>>)
    IN  IF Get(gradient_fill, "type", NoneValue) = "GRADIENT_LINEAR" /\ Len(handles) >= 2
        THEN LET x1 == Get(handles[1], "x", 0)
                 y1 == Get(handles[1], "y", 0)
                 x2 == Get(handles[2], "x", 1)
                 y2 == Get(handles[2], "y", 1)
                 stop_strings ==
                     [i \in 1..Len(stops) |->
                         to_css(parse_color(Get(stops[i], "color", <<>>))) \o " "
                             \o PercentStr(Get(stops[i], "position", 0)) \o "%"]
             IN  "linear-gradient(" \o AngleStr(y2 - y1, x2 - x1) \o "deg, "
                     \o Join(", ", stop_strings) \o ")"
        ELSE "transparent"

IsVisible(d) == Get(d, "visible", TRUE)

\* [f for f in fills if f.get("visible", True)]
VisibleOnly(items) == SelectSeq(items, IsVisible)

\* color = parse_color(fill["color"]); color.a *= fill.get("opacity", 1.0)
SolidCss(paint) ==
    LET color == parse_color(Get(paint, "color", <<>>))
        opacity == Get(paint, "opacity", Unit)
    IN  to_css([color EXCEPT !.a = (color.a \div Unit) * opacity])

\* the bug of resolving the last visible fill instead of the first
ResolveLast(ifills, fill, node_id) ==
    IF Get(fill, "type", NoneValue) = "SOLID" THEN Return(SolidCss(fill))
    ELSE IF Get(fill, "type", NoneValue) = "GRADIENT_LINEAR"
    THEN Return(parse_gradient(fill))
    ELSE IF Get(fill, "type", NoneValue) = "IMAGE"
    THEN IF Has(ifills, node_id)
         THEN Return("url('" \o ifills[node_id] \o "')")
         ELSE Return("#cccccc")
    ELSE Raise("RecursionError")

get_fills_css_last(ifills, fills, node_id, depth) ==
    IF fills = <<>> \/ ~ \E i \in 1..Len(fills) : IsVisible(fills[i])
    THEN Return("transparent")
    ELSE ResolveLast(ifills, VisibleOnly(fills)[Len(VisibleOnly(fills))], node_id)

RECURSIVE get_fills_css_at(_, _, _, _)
RECURSIVE ResolveVisible(_, _, _, _)
\* lines 113-132: the branch on the kind of the only visible fill, and the
\* call on [visible_fills[0]] in every other case
ResolveVisible(ifills, visible_fills, node_id, depth) ==
    LET fill == visible_fills[1]
        fill_type == Get(fill, "type", NoneValue)
    IN  IF Len(visible_fills) = 1 /\ fill_type = "SOLID"
        THEN Return(SolidCss(fill))
        ELSE IF Len(visible_fills) = 1 /\ fill_type = "GRADIENT_LINEAR"
        THEN Return(parse_gradient(fill))
        ELSE IF Len(visible_fills) = 1 /\ fill_type = "IMAGE"
        THEN IF Has(ifills, node_id)
             THEN Return("url('" \o ifills[node_id] \o "')")
             ELSE Return("#cccccc")
        ELSE \* "Multiple fills - use the first visible one"
             get_fills_css_at(ifills, <<fill>>, node_id, depth + 1)

\* get_fills_css(self, fills, node_id) with self.image_fills = ifills, entered at
\* recursion depth `depth`; a call beyond the interpreter's limit raises
get_fills_css_at(ifills, fills, node_id, depth) ==
    IF depth > RecursionLimit THEN Raise("RecursionError")
    ELSE IF fills = <<>> \/ ~ \E i \in 1..Len(fills) : IsVisible(fills[i])
    THEN Return("transparent")
    ELSE ResolveVisible(ifills, VisibleOnly(fills), node_id, depth)

get_fills_css(ifills, fills, node_id) == get_fills_css_at(ifills, fills, node_id, 1)

\* get_strokes_css(node): the triple (border_width, border_style, border_color)
get_strokes_css(node) ==
    LET strokes == Get(node, "strokes", <<>>)
    IN  IF strokes = <<>> \/ ~ \E i \in 1..Len(strokes) : IsVisible(strokes[i])
        THEN <<"", "", "">>
        ELSE LET stroke == VisibleOnly(strokes)[1]
                 border_width == ToString(Get(node, "strokeWeight", 1)) \o "px"
                 border_color == IF Get(stroke, "type", NoneValue) = "SOLID"
                                 THEN SolidCss(stroke)
                                 ELSE "#000000"
             IN  <<border_width, "solid", border_color>>

EffectCss(effect) ==
    LET effect_type == Get(effect, "type", NoneValue)
        offset == Get(effect, "offset", <<>>)
        shadow == ToString(Get(offset, "x", 0)) \o "px " \o ToString(Get(offset, "y", 0))
                      \o "px " \o ToString(Get(effect, "radius", 0)) \o "px "
                      \o ToString(Get(effect, "spread", 0)) \o "px "
                      \o to_css(parse_color(Get(effect, "color", <<>>)))
    IN  IF effect_type = "DROP_SHADOW" THEN <<shadow>>
        ELSE IF effect_type = "INNER_SHADOW" THEN <<"inset " \o shadow>>
        ELSE IF effect_type = "LAYER_BLUR"
        THEN <<"blur(" \o ToString(Get(effect, "radius", 0)) \o "px)">>
        ELSE <<>>

RECURSIVE get_effects_css(_)
get_effects_css(effects) ==
    IF effects = <<>> THEN <<>>
    ELSE (IF IsVisible(Head(effects)) THEN EffectCss(Head(effects)) ELSE <<>>)
             \o get_effects_css(Tail(effects))

NotBlur(e) == ~ Contains(e, "blur")

(***************************************************************************)
(* get_border_radius                                                       *)
(***************************************************************************)
corner_names ==
    << <<"rectangleCornerTopLeftRadius", "topLeftRadius", "cornerTopLeftRadius">>,
       <<"rectangleCornerTopRightRadius", "topRightRadius", "cornerTopRightRadius">>,
       <<"rectangleCornerBottomRightRadius", "bottomRightRadius",
         "cornerBottomRightRadius">>,
       <<"rectangleCornerBottomLeftRadius", "bottomLeftRadius",
         "cornerBottomLeftRadius">> >>

\* the first alias of the corner that is a key of the node, 0 when none is
FirstAlias(node, names) ==
    IF \E i \in 1..Len(names) : Has(node, names[i])
    THEN names[CHOOSE i \in 1..Len(names) :
                   Has(node, names[i]) /\ \A j \in 1..(i - 1) : ~ Has(node, names[j])]
    ELSE NoneValue

\* A number of the JSON is an int or a float; both are modelled by an
\* integer, and node["floats"] holds the keys whose number is a float (of a
\* list: whose numbers are floats).
IsFloat(node, key) == key \in Get(node, "floats", {})

\* f"{v}" of a number: the float 2.0 is written "2.0", the int 2 is "2"
NumStr(v, float) == IF float THEN ToString(v) \o ".0" ELSE ToString(v)

\* "all corners the same" collapses to one value, else the four in order;
\* float[i] says whether radii[i] is a float
RadiiStrOf(radii, float) ==
    IF \A i \in 1..Len(radii) : radii[i] = radii[1]
    THEN IF radii[1] = 0 THEN "0px" ELSE NumStr(radii[1], float[1]) \o "px"
    ELSE NumStr(radii[1], float[1]) \o "px " \o NumStr(radii[2], float[2]) \o "px "
             \o NumStr(radii[3], float[3]) \o "px " \o NumStr(radii[4], float[4]) \o "px"

\* the same for a list of the node
RadiiStr(node, key) ==
    RadiiStrOf(node[key], [i \in 1..Len(node[key]) |-> IsFloat(node, key)])

AliasRadiusOf(node, found) ==
    IF \A c \in 1..4 : found[c] = NoneValue THEN "0px"
    ELSE RadiiStrOf([c \in 1..4 |-> IF found[c] = NoneValue THEN 0 ELSE node[found[c]]],
                    [c \in 1..4 |-> found[c] # NoneValue /\ IsFloat(node, found[c])])

AliasRadius(node) ==
    AliasRadiusOf(node, [c \in 1..4 |-> FirstAlias(node, corner_names[c])])

\* the bug of testing the 4-element sequence before the uniform field
get_border_radius_seq_first(node) ==
    IF Has(node, "rectangleCornerRadii") /\ Len(node["rectangleCornerRadii"]) = 4
    THEN RadiiStr(node, "rectangleCornerRadii")
    ELSE IF Has(node, "cornerRadius")
    THEN NumStr(node["cornerRadius"], IsFloat(node, "cornerRadius")) \o "px"
    ELSE AliasRadius(node)

get_border_radius(node) ==
    IF Has(node, "cornerRadius")
    THEN NumStr(node["cornerRadius"], IsFloat(node, "cornerRadius")) \o "px"
    ELSE IF Has(node, "rectangleCornerRadii") /\ Len(node["rectangleCornerRadii"]) = 4
    THEN RadiiStr(node, "rectangleCornerRadii")
    ELSE AliasRadius(node)

(***************************************************************************)
(* get_text_styles: the style dict, and fonts_used after the call          *)
(***************************************************************************)
TextStyleBase(style) ==
    LET font_family == Get(style, "fontFamily", "Arial")
        s1 == << <<"font-family", "'" \o font_family \o "', sans-serif">>,
                 <<"font-size", ToString(Get(style, "fontSize", 16)) \o "px">>,
                 <<"font-weight", ToString(Get(style, "fontWeight", 400))>> >>
        s2 == IF Has(style, "lineHeightPx")
              THEN DictSet(s1, "line-height", ToString(style["lineHeightPx"]) \o "px")
              ELSE IF Has(style, "lineHeightPercentFontSize")
              THEN DictSet(s1, "line-height",
                           ToString(style["lineHeightPercentFontSize"]) \o "%")
              ELSE s1
        s3 == IF Has(style, "letterSpacing")
              THEN DictSet(s2, "letter-spacing", ToString(style["letterSpacing"]) \o "px")
              ELSE s2
        lowered == Lower(Get(style, "textAlignHorizontal", "LEFT"))
        text_align == IF lowered = "justified" THEN "justify" ELSE lowered
        s4 == DictSet(s3, "text-align", text_align)
        decoration == Get(style, "textDecoration", NoneValue)
        s5 == IF decoration = "UNDERLINE" THEN DictSet(s4, "text-decoration", "underline")
              ELSE IF decoration = "STRIKETHROUGH"
              THEN DictSet(s4, "text-decoration", "line-through")
              ELSE s4
        text_case == Get(style, "textCase", NoneValue)
    IN  IF text_case = "UPPER" THEN DictSet(s5, "text-transform", "uppercase")
        ELSE IF text_case = "LOWER" THEN DictSet(s5, "text-transform", "lowercase")
        ELSE IF text_case = "TITLE" THEN DictSet(s5, "text-transform", "capitalize")
        ELSE s5

\* lines 325-330: the text colour, when the node has fills
TextColor(styles, fonts, fills, color) ==
    IF fills = <<>> THEN [out |-> Return(styles), fonts |-> fonts]
    ELSE IF color.kind = "raise" THEN [out |-> color, fonts |-> fonts]
    ELSE [out |-> Return(DictSet(styles, "color", color.value)), fonts |-> fonts]

\* returns [out |-> Return(styles) or Raise(..), fonts |-> self.fonts_used after]
get_text_styles(ifills, fonts, node) ==
    TextColor(TextStyleBase(Get(node, "style", EmptyDict)),
              fonts \cup {Get(Get(node, "style", EmptyDict), "fontFamily", "Arial")},
              Get(node, "fills", <<>>),
              get_fills_css(ifills, Get(node, "fills", <<>>), ""))

(***************************************************************************)
(* The collectors and the tree walker.  `tree` is the flattened document,  *)
(* `i` the index of the node the method is called on.                      *)
(***************************************************************************)
\* the truth value of a dict: it has a key
Truthy(d) == DOMAIN d # {}

Children(tree, i) == Get(tree[i], "children", <<>>)

RECURSIVE find_frames(_, _)
RECURSIVE FindFramesIn(_, _)
\* for child in node.get("children", []): self.find_frames(child, frames)
FindFramesIn(tree, children) ==
    IF children = <<>> THEN <<>>
    ELSE find_frames(tree, Head(children)) \o FindFramesIn(tree, Tail(children))

\* the bug of not searching below a hidden node
find_frames_skip_hidden(tree, i) ==
    IF ~ IsVisible(tree[i]) THEN <<>>
    ELSE (IF Get(tree[i], "type", NoneValue) = "FRAME" THEN <<i>> ELSE <<>>)
             \o FindFramesIn(tree, Children(tree, i))

\* the frames appended by find_frames(node), as node indices
find_frames(tree, i) ==
    (IF Get(tree[i], "type", NoneValue) = "FRAME" /\ IsVisible(tree[i])
     THEN <<i>> ELSE <<>>)
        \o FindFramesIn(tree, Children(tree, i))

HasImageFill(node) ==
    LET fills == Get(node, "fills", <<>>)
    IN  \E k \in 1..Len(fills) :
            Get(fills[k], "type", NoneValue) = "IMAGE" /\ IsVisible(fills[k])

RECURSIVE collect_image_nodes(_, _)
RECURSIVE CollectImagesIn(_, _)
CollectImagesIn(tree, children) ==
    IF children = <<>> THEN <<>>
    ELSE collect_image_nodes(tree, Head(children)) \o CollectImagesIn(tree, Tail(children))

\* the bug of looking at the node only, not at what is below it
collect_image_nodes_root_only(tree, i) ==
    IF HasImageFill(tree[i]) THEN <<Get(tree[i], "id", NoneValue)>> ELSE <<>>

\* the bug of not collecting from a hidden node or below it
collect_image_nodes_skip_hidden(tree, i) ==
    IF ~ IsVisible(tree[i]) THEN <<>>
    ELSE (IF HasImageFill(tree[i]) THEN <<Get(tree[i], "id", NoneValue)>> ELSE <<>>)
             \o CollectImagesIn(tree, Children(tree, i))

\* the ids appended to image_nodes by collect_image_nodes(node, image_nodes)
collect_image_nodes(tree, i) ==
    (IF HasImageFill(tree[i]) THEN <<Get(tree[i], "id", NoneValue)>> ELSE <<>>)
        \o CollectImagesIn(tree, Children(tree, i))

\* One invocation of node_to_html, recorded as it is entered.
WalkCall(i, parent_box, depth) == [node |-> i, parent_box |-> parent_box, depth |-> depth]

\* The result of a walk: out is Return(html) or Raise(..), fonts is
\* self.fonts_used afterwards, calls the invocations of node_to_html in order.
WalkResult(out, fonts, calls) == [out |-> out, fonts |-> fonts, calls |-> calls]

\* the text branch of node_to_html (lines 378-400) after the geometry;
\* ts is what get_text_styles returned, bg the background fill
TextElementOf(node, styles0, ts, needs_bg, bg, shadows) ==
    IF ts.out.kind = "raise" THEN [out |-> ts.out, fonts |-> ts.fonts]
    ELSE IF needs_bg /\ bg.kind = "raise" THEN [out |-> bg, fonts |-> ts.fonts]
    ELSE LET s1 == styles0 \o ts.out.value
             s2 == IF needs_bg /\ bg.value # "transparent"
                   THEN DictSet(s1, "background", bg.value) ELSE s1
             s3 == IF shadows # <<>>
                   THEN DictSet(s2, "text-shadow", Join(", ", shadows)) ELSE s2
         IN  [out |-> Return("<div class=\"text-node\" style=\"" \o StyleStr(s3)
                                 \o "\">" \o Get(node, "characters", "") \o "</div>"),
              fonts |-> ts.fonts]

FirstFillNotSolid(fills) == fills # <<>> /\ Get(fills[1], "type", NoneValue) # "SOLID"

TextElement(ifills, fonts, node, styles0) ==
    TextElementOf(node, styles0,
                  get_text_styles(ifills, fonts, node),
                  FirstFillNotSolid(Get(node, "fills", <<>>)),
                  get_fills_css(ifills, Get(node, "fills", <<>>), Get(node, "id", "")),
                  SelectSeq(get_effects_css(Get(node, "effects", <<>>)), NotBlur))

\* the style dict of a container (lines 405-434); Raise when the fill raises
ContainerStylesOf(styles0, fills, bg, border, border_radius, shadows, opacity) ==
    IF fills # <<>> /\ bg.kind = "raise" THEN bg
    ELSE LET s1 == IF fills # <<>> THEN DictSet(styles0, "background", bg.value)
                   ELSE styles0
             s2 == IF border[1] # ""
                   THEN DictSet(s1, "border",
                                border[1] \o " " \o border[2] \o " " \o border[3])
                   ELSE s1
             s3 == IF border_radius # "0px"
                   THEN DictSet(DictSet(s2, "border-radius", border_radius),
                                "overflow", "hidden")
                   ELSE s2
             s4 == IF shadows # <<>>
                   THEN DictSet(s3, "box-shadow", Join(", ", shadows)) ELSE s3
         IN  Return(IF opacity < Unit
                    THEN DictSet(s4, "opacity", FloatStr(Unit * opacity)) ELSE s4)

ContainerStyles(ifills, node, styles0) ==
    ContainerStylesOf(styles0, Get(node, "fills", <<>>),
                      get_fills_css(ifills, Get(node, "fills", <<>>), Get(node, "id", "")),
                      get_strokes_css(node),
                      get_border_radius(node),
                      SelectSeq(get_effects_css(Get(node, "effects", <<>>)), NotBlur),
                      Get(node, "opacity", Unit))

\* the bug of placing every node by its absolute coordinates
RelativeTo_absolute(parent_box, v, key) == v

\* rel_x, rel_y = x - parent_box.x, y - parent_box.y, or x, y without a parent box
RelativeTo(parent_box, v, key) ==
    IF Truthy(parent_box) THEN v - Get(parent_box, key, 0) ELSE v

\* the geometry styles (lines 354-375)
Geometry(bbox, parent_box) ==
    << <<"position", "absolute">>,
       <<"left", ToString(RelativeTo(parent_box, Get(bbox, "x", 0), "x")) \o "px">>,
       <<"top", ToString(RelativeTo(parent_box, Get(bbox, "y", 0), "y")) \o "px">>,
       <<"width", ToString(Get(bbox, "width", 0)) \o "px">>,
       <<"height", ToString(Get(bbox, "height", 0)) \o "px">> >>

\* the loop over the children: first is the walk of the first child, rest the
\* loop over the others; a child with empty html adds no part
ChildParts(first, rest) ==
    IF rest.out.kind = "raise"
    THEN WalkResult(rest.out, rest.fonts, first.calls \o rest.calls)
    ELSE WalkResult(Return((IF first.out.value # "" THEN <<first.out.value>> ELSE <<>>)
                               \o rest.out.value),
                    rest.fonts, first.calls \o rest.calls)

\* return "\n".join(html_parts) of a node without a box (lines 346-352)
PassThrough(this, kids) ==
    IF kids.out.kind = "raise"
    THEN WalkResult(kids.out, kids.fonts, <<this>> \o kids.calls)
    ELSE WalkResult(Return(Join("\n", kids.out.value)), kids.fonts, <<this>> \o kids.calls)

\* the element of a container (lines 436-453); kids is the loop over its children
ContainerElement(this, class_name, fonts, styles, kids) ==
    IF styles.kind = "raise" THEN WalkResult(styles, fonts, <<this>>)
    ELSE IF kids.out.kind = "raise"
    THEN WalkResult(kids.out, kids.fonts, <<this>> \o kids.calls)
    ELSE IF kids.out.value # <<>>
    THEN WalkResult(Return("<div class=\"" \o class_name \o "\" style=\""
                               \o StyleStr(styles.value) \o "\">\n"
                               \o Join("\n", kids.out.value) \o "\n</div>"),
                    kids.fonts, <<this>> \o kids.calls)
    ELSE WalkResult(Return("<div class=\"" \o class_name \o "\" style=\""
                               \o StyleStr(styles.value) \o "\"></div>"),
                    kids.fonts, <<this>> \o kids.calls)

TextLeaf(this, el) == WalkResult(el.out, el.fonts, <<this>>)

RECURSIVE node_to_html(_, _, _, _, _, _)
RECURSIVE WalkChildren(_, _, _, _, _, _)
RECURSIVE WalkRest(_, _, _, _, _, _)
\* the rest of the loop after the walk `first` of a child: a raise ends it
WalkRest(ifills, tree, children, box, depth, first) ==
    IF first.out.kind = "raise" THEN first
    ELSE ChildParts(first, WalkChildren(ifills, first.fonts, tree, children, box, depth))

\* for child in children: child_html = self.node_to_html(child, box, depth);
\*     if child_html: parts.append(child_html)
\* out is Return(parts) unless a call raised
WalkChildren(ifills, fonts, tree, children, box, depth) ==
    IF children = <<>> THEN WalkResult(Return(<<>>), fonts, <<>>)
    ELSE WalkRest(ifills, tree, Tail(children), box, depth,
                  node_to_html(ifills, fonts, tree, Head(children), box, depth))

\* the bug of walking the children of a text node as those of a container
node_to_html_text_recurses(ifills, fonts, tree, i, parent_box, depth) ==
    IF ~ IsVisible(tree[i])
    THEN WalkResult(Return(""), fonts, <<WalkCall(i, parent_box, depth)>>)
    ELSE IF ~ Truthy(Get(tree[i], "absoluteBoundingBox", EmptyDict))
    THEN PassThrough(WalkCall(i, parent_box, depth),
                     WalkChildren(ifills, fonts, tree, Children(tree, i),
                                  parent_box, depth))
    ELSE ContainerElement(WalkCall(i, parent_box, depth),
                          Lower(Get(tree[i], "type", NoneValue)) \o "-node", fonts,
                          ContainerStyles(ifills, tree[i],
                                          Geometry(tree[i]["absoluteBoundingBox"],
                                                   parent_box)),
                          WalkChildren(ifills, fonts, tree, Children(tree, i),
                                       tree[i]["absoluteBoundingBox"], depth + 1))

\* the bug of walking the children of a hidden node that has no box
node_to_html_late_skip(ifills, fonts, tree, i, parent_box, depth) ==
    IF ~ Truthy(Get(tree[i], "absoluteBoundingBox", EmptyDict))
    THEN PassThrough(WalkCall(i, parent_box, depth),
                     WalkChildren(ifills, fonts, tree, Children(tree, i),
                                  parent_box, depth))
    ELSE IF ~ IsVisible(tree[i])
    THEN WalkResult(Return(""), fonts, <<WalkCall(i, parent_box, depth)>>)
    ELSE IF Get(tree[i], "type", NoneValue) = "TEXT"
    THEN TextLeaf(WalkCall(i, parent_box, depth),
                  TextElement(ifills, fonts, tree[i],
                              Geometry(tree[i]["absoluteBoundingBox"], parent_box)))
    ELSE ContainerElement(WalkCall(i, parent_box, depth),
                          Lower(Get(tree[i], "type", NoneValue)) \o "-node", fonts,
                          ContainerStyles(ifills, tree[i],
                                          Geometry(tree[i]["absoluteBoundingBox"],
                                                   parent_box)),
                          WalkChildren(ifills, fonts, tree, Children(tree, i),
                                       tree[i]["absoluteBoundingBox"], depth + 1))

\* the bug of handing a node without a box its own depth + 1 and no box on
node_to_html_pass_wrong(ifills, fonts, tree, i, parent_box, depth) ==
    IF ~ IsVisible(tree[i])
    THEN WalkResult(Return(""), fonts, <<WalkCall(i, parent_box, depth)>>)
    ELSE IF ~ Truthy(Get(tree[i], "absoluteBoundingBox", EmptyDict))
    THEN PassThrough(WalkCall(i, parent_box, depth),
                     WalkChildren(ifills, fonts, tree, Children(tree, i),
                                  EmptyDict, depth + 1))
    ELSE IF Get(tree[i], "type", NoneValue) = "TEXT"
    THEN TextLeaf(WalkCall(i, parent_box, depth),
                  TextElement(ifills, fonts, tree[i],
                              Geometry(tree[i]["absoluteBoundingBox"], parent_box)))
    ELSE ContainerElement(WalkCall(i, parent_box, depth),
                          Lower(Get(tree[i], "type", NoneValue)) \o "-node", fonts,
                          ContainerStyles(ifills, tree[i],
                                          Geometry(tree[i]["absoluteBoundingBox"],
                                                   parent_box)),
                          WalkChildren(ifills, fonts, tree, Children(tree, i),
                                       tree[i]["absoluteBoundingBox"], depth + 1))

node_to_html(ifills, fonts, tree, i, parent_box, depth) ==
    IF ~ IsVisible(tree[i])
    THEN WalkResult(Return(""), fonts, <<WalkCall(i, parent_box, depth)>>)
    ELSE IF ~ Truthy(Get(tree[i], "absoluteBoundingBox", EmptyDict))
    THEN PassThrough(WalkCall(i, parent_box, depth),
                     WalkChildren(ifills, fonts, tree, Children(tree, i),
                                  parent_box, depth))
    ELSE IF Get(tree[i], "type", NoneValue) = "TEXT"
    THEN TextLeaf(WalkCall(i, parent_box, depth),
                  TextElement(ifills, fonts, tree[i],
                              Geometry(tree[i]["absoluteBoundingBox"], parent_box)))
    ELSE ContainerElement(WalkCall(i, parent_box, depth),
                          Lower(Get(tree[i], "type", NoneValue)) \o "-node", fonts,
                          ContainerStyles(ifills, tree[i],
                                          Geometry(tree[i]["absoluteBoundingBox"],
                                                   parent_box)),
                          WalkChildren(ifills, fonts, tree, Children(tree, i),
                                       tree[i]["absoluteBoundingBox"], depth + 1))

(***************************************************************************)
(* build_complete_html.  The iteration order of the set self.fonts_used is *)
(* not defined by the language: `fonts` is the order the set is iterated   *)
(* in, a sequence of its members.                                          *)
(***************************************************************************)
Orderings(S) ==
    { f \in [1..Cardinality(S) -> S] : \A i, j \in 1..Cardinality(S) : f[i] = f[j] => i = j }

\* the bug of linking only the first font of the set
FontsImport_first_only(fonts) ==
    IF fonts = <<>> THEN ""
    ELSE "<link href=\"https://fonts.googleapis.com/css2?family="
             \o ReplaceSpaces(fonts[1])
             \o ":wght@100;200;300;400;500;600;700;800;900&display=swap\""
             \o " rel=\"stylesheet\">"

FontsImport(fonts) ==
    IF fonts = <<>> THEN ""
    ELSE "<link href=\"https://fonts.googleapis.com/css2?family="
             \o Join("|", [i \in 1..Len(fonts) |-> ReplaceSpaces(fonts[i])])
             \o ":wght@100;200;300;400;500;600;700;800;900&display=swap\""
             \o " rel=\"stylesheet\">"

build_complete_html(fonts, body_content, width, height) ==
    Join("\n", <<
        "<!DOCTYPE html>",
        "<html lang=\"en\">",
        "<head>",
        "    <meta charset=\"UTF-8\">",
        "    <meta name=\"viewport\" content=\"width=device-width, initial-scale=1.0\">",
        "    <title>Figma to HTML Export</title>",
        "    " \o FontsImport(fonts),
        "    <style>",
        "        * {",
        "            margin: 0;",
        "            padding: 0;",
        "            box-sizing: border-box;",
        "        }",
        "        ",
        "        body {",
        "            font-family: -apple-system, BlinkMacSystemFont, 'Segoe UI', Roboto, Oxygen, Ubuntu, Cantarell, sans-serif;",
        "            background: #f5f5f5;",
        "            display: flex;",
        "            justify-content: center;",
        "            align-items: center;",
        "            min-height: 100vh;",
        "            padding: 20px;",
        "        }",
        "        ",
        "        #figma-frame {",
        "            position: relative;",
        "            width: " \o ToString(width) \o "px;",
        "            height: " \o ToString(height) \o "px;",
        "            background: white;",
        "            box-shadow: 0 2px 8px rgba(0, 0, 0, 0.1);",
        "        }",
        "        ",
        "        .text-node {",
        "            overflow: hidden;",
        "            word-wrap: break-word;",
        "            white-space: pre-wrap;",
        "        }",
        "    </style>",
        "</head>",
        "<body>",
        "    <div id=\"figma-frame\">",
        "        " \o body_content,
        "    </div>",
        "</body>",
        "</html>" >>)

(***************************************************************************)
(* The state of a converter that is not running main.                      *)
(***************************************************************************)
Idle ==
    /\ pc = "idle"
    /\ file_data = NoneValue
    /\ frame_name = NoneValue
    /\ frames = <<>>
    /\ selected_frame = 0
    /\ image_nodes = <<>>
    /\ body_html = NoneValue
    /\ html = NoneValue
    /\ output_file = NoneValue
    /\ exit_code = NoneValue
    /\ events = <<>>

runVars == <<pc, file_data, frame_name, frames, selected_frame, image_nodes,
             body_html, html, output_file, exit_code, events>>

(***************************************************************************)
(* SpecColor: Color.to_css and Color.to_hex applied to a Color.            *)
(***************************************************************************)
Channels == (0 - 1)..MaxChan

Colors == {Color(r, g, b, Unit * a) : r \in Channels, g \in Channels, b \in Channels,
                                      a \in 0..MaxAlpha}

InitColor ==
    /\ arg \in Colors
    /\ ret = NoCall
    /\ image_fills = <<>>
    /\ fonts_used = {}
    /\ Idle

CallToCss ==
    /\ ret.op = "none"
    /\ ret' = [op |-> "to_css", out |-> Return(to_css(arg))]
    /\ UNCHANGED <<arg, image_fills, fonts_used, runVars>>

CallToHex ==
    /\ ret.op = "none"
    /\ ret' = [op |-> "to_hex", out |-> Return(to_hex(arg))]
    /\ UNCHANGED <<arg, image_fills, fonts_used, runVars>>

NextColor == CallToCss \/ CallToHex

SpecColor == InitColor /\ [][NextColor]_vars

(***************************************************************************)
(* SpecFills: get_fills_css applied to a fill list, then applied again     *)
(* after an entry behind the first visible one was added, removed or       *)
(* changed.                                                                *)
(***************************************************************************)
Opaque(r, g, b) == [r |-> r, g |-> g, b |-> b, a |-> Unit]

Hidden(paint) == paint @@ [visible |-> FALSE]

VisiblePaints ==
    { [type |-> "SOLID", color |-> Opaque(Unit, 0, 0)],
      [type |-> "SOLID", visible |-> TRUE, color |-> Opaque(0, 0, Unit), opacity |-> 4],
      [type |-> "GRADIENT_LINEAR",
       gradientHandlePositions |-> <<[x |-> 0, y |-> 0], [x |-> 1, y |-> 1]>>,
       gradientStops |-> <<[color |-> Opaque(Unit, 0, 0), position |-> 0],
                           [color |-> Opaque(0, 0, Unit), position |-> Unit]>>],
      [type |-> "GRADIENT_LINEAR", gradientHandlePositions |-> <<[x |-> 0, y |-> 0]>>,
       gradientStops |-> <<>>],
      [type |-> "IMAGE"],
      [type |-> "GRADIENT_RADIAL"] }

Paints ==
    VisiblePaints
        \cup { Hidden([type |-> "SOLID", color |-> Opaque(0, Unit, 0)]),
               Hidden([type |-> "IMAGE"]),
               Hidden([type |-> "GRADIENT_RADIAL"]) }

FillLists == UNION { [1..n -> Paints] : n \in 0..MaxFills }

ImageUrl(id) == "https://img/" \o id

ImageMaps == { EmptyDict, [id \in {"1:1"} |-> ImageUrl(id)] }

InitFills ==
    /\ arg \in [fills : FillLists, node_id : {"1:1", "1:2"}]
    /\ image_fills \in ImageMaps
    /\ ret = NoCall
    /\ fonts_used = {}
    /\ Idle

FillsCall(fills, node_id) ==
    [op |-> "get_fills_css", out |-> get_fills_css(image_fills, fills, node_id)]

CallGetFillsCss ==
    /\ ret.op = "none"
    /\ ret' = FillsCall(arg.fills, arg.node_id)
    /\ UNCHANGED <<arg, image_fills, fonts_used, runVars>>

\* the index of the first visible entry, 0 when there is none
FirstVisibleIndex(fills) ==
    IF \E i \in 1..Len(fills) : IsVisible(fills[i])
    THEN CHOOSE i \in 1..Len(fills) :
             IsVisible(fills[i]) /\ \A j \in 1..(i - 1) : ~ IsVisible(fills[j])
    ELSE 0

RemoveAt(s, j) == SubSeq(s, 1, j - 1) \o SubSeq(s, j + 1, Len(s))

InsertAfter(s, j, e) == SubSeq(s, 1, j) \o <<e>> \o SubSeq(s, j + 1, Len(s))

\* the lists that differ from fills in one entry behind its first visible one
LaterEdits(fills) ==
    LET k == FirstVisibleIndex(fills)
    IN  IF k = 0 THEN {}
        ELSE { [fills EXCEPT ![j] = p] : j \in (k + 1)..Len(fills), p \in Paints }
                 \cup { RemoveAt(fills, j) : j \in (k + 1)..Len(fills) }
                 \cup { InsertAfter(fills, j, p) :
                            j \in (IF Len(fills) < MaxFills THEN k..Len(fills) ELSE {}),
                            p \in Paints }

\* the caller keeps the result, edits the list behind the first visible entry
\* and calls again
EditLaterFills ==
    /\ ret.op = "get_fills_css"
    /\ \E g \in LaterEdits(arg.fills) :
           /\ g # arg.fills
           /\ arg' = [arg EXCEPT !.fills = g]
           /\ ret' = FillsCall(g, arg.node_id) @@ [before |-> ret.out]
    /\ UNCHANGED <<image_fills, fonts_used, runVars>>

NextFills == CallGetFillsCss \/ EditLaterFills

SpecFills == InitFills /\ [][NextFills]_vars

(***************************************************************************)
(* SpecRadius: get_border_radius applied to a node with any combination of *)
(* the three corner-radius representations.                                *)
(***************************************************************************)
Radii == 0..MaxRadius

\* the dicts with the key k absent or set to a value of vals
Optional(k, vals) == {EmptyDict} \cup { [x \in {k} |-> v] : v \in vals }

\* 4-element sequences, and one that is not 4 long
RadiiSequences == [1..4 -> {0, 1, MaxRadius}] \cup {<<1, 1, 1>>}

\* per-corner aliases: every alias of the top-left corner, and for the other
\* corners one alias each, of a different rank
AliasDicts ==
    { a1 @@ a2 @@ a3 @@ b @@ c @@ d :
        a1 \in Optional("rectangleCornerTopLeftRadius", {0, MaxRadius}),
        a2 \in Optional("topLeftRadius", {1}),
        a3 \in Optional("cornerTopLeftRadius", {MaxRadius}),
        b \in Optional("topRightRadius", {1}),
        c \in Optional("cornerBottomRightRadius", {0, 1}),
        d \in Optional("rectangleCornerBottomLeftRadius", {1}) }

RadiusNodes(aliases) ==
    { u @@ s @@ a :
        u \in Optional("cornerRadius", Radii),
        s \in Optional("rectangleCornerRadii", RadiiSequences),
        a \in aliases }

InitRadius ==
    /\ arg \in RadiusNodes(AliasDicts)
    /\ ret = NoCall
    /\ image_fills = EmptyDict
    /\ fonts_used = {}
    /\ Idle

CallGetBorderRadius ==
    /\ ret.op = "none"
    /\ ret' = [op |-> "get_border_radius", out |-> Return(get_border_radius(arg))]
    /\ UNCHANGED <<arg, image_fills, fonts_used, runVars>>

NextRadius == CallGetBorderRadius

SpecRadius == InitRadius /\ [][NextRadius]_vars

(***************************************************************************)
(* Documents: every tree over the nodes 1..n (the parent of a node has a   *)
(* smaller index, siblings are in index order), every node drawn from the  *)
(* node dicts `nodes[i]` offers   for its index.                             *)
(***************************************************************************)
ParentVectors(n) == { p \in [2..n -> 1..n] : \A i \in 2..n : p[i] < i }

ChildrenOf(p, n, i) ==
    LET IsChild(j) == j > 1 /\ p[j] = i
    IN  SelectSeq([j \in 1..n |-> j], IsChild)

WithChildren(node, children) ==
    IF children = <<>> THEN node ELSE node @@ [children |-> children]

\* the sequences <<d1, .., dk>> with di one of nodes[i]
RECURSIVE NodeChoices(_, _)
NodeChoices(k, nodes) ==
    IF k = 0 THEN {<<>>}
    ELSE { Append(f, d) : f \in NodeChoices(k - 1, nodes), d \in nodes[k] }

Documents(n, nodes) ==
    { [i \in 1..n |-> WithChildren(f[i], ChildrenOf(p, n, i))] :
          f \in NodeChoices(n, nodes), p \in ParentVectors(n) }

NodeId(i) == "1:" \o ToString(i)

\* the box of node i: distinct corners, so that relative positions differ
Box(i) == [x |-> 10 * i, y |-> 5 * i, width |-> 100 - 10 * i, height |-> 60 - 5 * i]

White == [type |-> "SOLID", color |-> Opaque(Unit, Unit, Unit)]

\* two nodes of a document may carry the same name
NameOf(i) == IF i % 2 = 1 THEN "Home" ELSE "Detail"

FontOf(i) == IF i % 2 = 1 THEN "Inter" ELSE "Open Sans"

\* what a node of a type carries besides its visibility and its box
Typed(i, type) ==
    [id |-> NodeId(i), name |-> NameOf(i), type |-> type]
        @@ (CASE type = "FRAME" -> [fills |-> <<White>>, cornerRadius |-> 4]
              [] type = "RECTANGLE" -> [fills |-> <<[type |-> "IMAGE"]>>]
              [] type = "TEXT" -> [characters |-> "Hi", style |-> [fontFamily |-> FontOf(i)],
                                   fills |-> <<[type |-> "SOLID",
                                                color |-> Opaque(0, 0, 0)]>>]
              [] OTHER -> EmptyDict)

WalkTypes == {"FRAME", "RECTANGLE", "TEXT"}

WalkNodes(i) ==
    { Typed(i, type) @@ v @@ b :
        type \in WalkTypes,
        v \in Optional("visible", {FALSE}),
        b \in Optional("absoluteBoundingBox", {Box(i)}) }

(***************************************************************************)
(* SpecWalk: node_to_html, find_frames and collect_image_nodes applied to  *)
(* the nodes of a document by a new converter.                             *)
(***************************************************************************)
InitWalk ==
    /\ arg \in Documents(NumNodes, [i \in 1..NumNodes |-> WalkNodes(i)])
    /\ ret = NoCall
    /\ image_fills = [id \in {NodeId(2)} |-> ImageUrl(id)]
    /\ fonts_used = {}
    /\ Idle

\* converter.node_to_html(node): parent_box = None, depth = 0
Walked(n, w) ==
    /\ ret' = [op |-> "node_to_html", node |-> n, out |-> w.out, calls |-> w.calls]
    /\ fonts_used' = w.fonts

CallNodeToHtml ==
    \E n \in DOMAIN arg :
        /\ ret.op = "none"
        /\ Walked(n, node_to_html(image_fills, fonts_used, arg, n, EmptyDict, 0))
        /\ UNCHANGED <<arg, image_fills, runVars>>

\* converter.find_frames(document)
CallFindFrames ==
    /\ ret.op = "none"
    /\ ret' = [op |-> "find_frames", node |-> 1, out |-> Return(find_frames(arg, 1))]
    /\ UNCHANGED <<arg, image_fills, fonts_used, runVars>>

\* image_nodes = []; converter.collect_image_nodes(node, image_nodes)
CallCollectImageNodes ==
    \E n \in DOMAIN arg :
        /\ ret.op = "none"
        /\ ret' = [op |-> "collect_image_nodes", node |-> n,
                   out |-> Return(collect_image_nodes(arg, n))]
        /\ UNCHANGED <<arg, image_fills, fonts_used, runVars>>

NextWalk == CallNodeToHtml \/ CallFindFrames \/ CallCollectImageNodes

SpecWalk == InitWalk /\ [][NextWalk]_vars

(***************************************************************************)
(* SpecFrames: find_frames, and the walker, applied to the root of a        *)
(* document of frames, groups and pages, hidden or not.                    *)
(***************************************************************************)
FrameNodes(i) ==
    { Typed(i, "FRAME") @@ [absoluteBoundingBox |-> Box(i)],
      Typed(i, "FRAME") @@ [absoluteBoundingBox |-> Box(i), visible |-> FALSE],
      Typed(i, "GROUP") @@ [absoluteBoundingBox |-> Box(i), visible |-> FALSE],
      Typed(i, "GROUP") @@ [absoluteBoundingBox |-> Box(i), visible |-> TRUE],
      Typed(i, "CANVAS") }

InitFrames ==
    /\ arg \in Documents(NumFrameNodes, [i \in 1..NumFrameNodes |-> FrameNodes(i)])
    /\ ret = NoCall
    /\ image_fills = EmptyDict
    /\ fonts_used = {}
    /\ Idle

\* converter.node_to_html(document)
CallNodeToHtmlOnRoot ==
    /\ ret.op = "none"
    /\ Walked(1, node_to_html(image_fills, fonts_used, arg, 1, EmptyDict, 0))
    /\ UNCHANGED <<arg, image_fills, runVars>>

NextFrames == CallFindFrames \/ CallNodeToHtmlOnRoot

SpecFrames == InitFrames /\ [][NextFrames]_vars

(***************************************************************************)
(* SpecAssemble: build_complete_html applied to a fragment and a size by a *)
(* converter whose fonts_used holds any of three families.                 *)
(***************************************************************************)
Families == {"Inter", "Open Sans", "Roboto Mono"}

Fragments ==
    { "<div>Test</div>",
      "",
      "<div class=\"frame-node\" style=\"position: absolute; left: 0px\">\n<div class=\"text-node\" style=\"color: rgb(0, 0, 0)\">Hi</div>\n</div>" }

InitAssemble ==
    /\ arg \in [body_content : Fragments, width : {800, 90}, height : {600, 55}]
    /\ fonts_used \in SUBSET Families
    /\ ret = NoCall
    /\ image_fills = EmptyDict
    /\ Idle

\* converter.build_complete_html(body_content, width, height); the set
\* fonts_used is iterated in some order
CallBuildCompleteHtml ==
    /\ ret.op = "none"
    /\ \E order \in Orderings(fonts_used) :
           ret' = [op |-> "build_complete_html",
                   out |-> Return(build_complete_html(order, arg.body_content,
                                                      arg.width, arg.height))]
    /\ UNCHANGED <<arg, image_fills, fonts_used, runVars>>

NextAssemble == CallBuildCompleteHtml

SpecAssemble == InitAssemble /\ [][NextAssemble]_vars

(***************************************************************************)
(* SpecCollect: collect_image_nodes applied to the nodes of a document     *)
(* whose nodes, hidden or not, carry no, one or several image fills,       *)
(* hidden or not.                                                          *)
(***************************************************************************)
ImagePaint == [type |-> "IMAGE"]

ImageFillLists ==
    { <<>>,
      <<ImagePaint>>,
      <<ImagePaint, [type |-> "IMAGE", visible |-> TRUE]>>,
      <<Hidden(ImagePaint)>>,
      <<White, Hidden(ImagePaint), ImagePaint>> }

CollectNodes(i) ==
    { [id |-> NodeId(i), name |-> NameOf(i), type |-> "RECTANGLE",
       absoluteBoundingBox |-> Box(i)] @@ f :
        f \in { IF l = <<>> THEN EmptyDict ELSE [fills |-> l] : l \in ImageFillLists } }
        \cup { [id |-> NodeId(i), name |-> NameOf(i), type |-> "GROUP", visible |-> FALSE,
                fills |-> <<ImagePaint>>] }

InitCollect ==
    /\ arg \in Documents(NumFrameNodes, [i \in 1..NumFrameNodes |-> CollectNodes(i)])
    /\ ret = NoCall
    /\ image_fills = EmptyDict
    /\ fonts_used = {}
    /\ Idle

NextCollect == CallCollectImageNodes

SpecCollect == InitCollect /\ [][NextCollect]_vars

(***************************************************************************)
(* SpecContainer: the walker applied to documents of containers whose      *)
(* corner radius is given in each of the three representations, as an int  *)
(* or as a float, zero or not.                                             *)
(***************************************************************************)
AsFloat(d) == d @@ [floats |-> DOMAIN d]

RadiusForms ==
    { EmptyDict,
      [cornerRadius |-> 0],
      AsFloat([cornerRadius |-> 0]),
      [cornerRadius |-> 2],
      [cornerRadius |-> 0, rectangleCornerRadii |-> <<1, 2, 1, 2>>],
      [rectangleCornerRadii |-> <<0, 0, 0, 0>>],
      AsFloat([rectangleCornerRadii |-> <<0, 0, 0, 0>>]),
      [rectangleCornerRadii |-> <<1, 2, 1, 2>>],
      AsFloat([rectangleCornerRadii |-> <<2, 2, 2, 2>>]),
      [topLeftRadius |-> 0],
      AsFloat([topLeftRadius |-> 0]),
      [topRightRadius |-> 1],
      [rectangleCornerRadii |-> <<0, 0, 0>>, cornerBottomRightRadius |-> 2] }

ContainerNodes(i) ==
    { [id |-> NodeId(i), name |-> NameOf(i), type |-> type,
       absoluteBoundingBox |-> Box(i)] @@ form :
        type \in {"FRAME", "RECTANGLE", "GROUP"}, form \in RadiusForms }

InitContainer ==
    /\ arg \in Documents(NumContainerNodes,
                         [i \in 1..NumContainerNodes |-> ContainerNodes(i)])
    /\ ret = NoCall
    /\ image_fills = EmptyDict
    /\ fonts_used = {}
    /\ Idle

NextContainer == CallNodeToHtml

SpecContainer == InitContainer /\ [][NextContainer]_vars

(***************************************************************************)
(* SpecInstance: the operations of the engine applied, in any sequence, by *)
(* one converter to one document.  The document is the dicts the caller    *)
(* holds; an operation leaves in it what its writes leave.                 *)
(***************************************************************************)
\* the bug of scaling the alpha in the paint's own color dict
PaintAfterSolid_aliased(paint) ==
    [color |-> [a |-> (Get(Get(paint, "color", EmptyDict), "a", Unit)
                           * Get(paint, "opacity", Unit)) \div Unit]
                   @@ Get(paint, "color", EmptyDict)]
        @@ paint

\* a SOLID paint dict after its colour was resolved (lines 117-121, 176-180):
\* the one write, color.a *= opacity, is to the Color object parse_color
\* built from the dict's numbers; the dict is only read
PaintAfterSolid(paint) == paint

\* a list of paints after get_fills_css / get_strokes_css resolved it: the
\* paint resolved is the first visible one
PaintsAfter(paints) ==
    IF FirstVisibleIndex(paints) # 0
           /\ Get(paints[FirstVisibleIndex(paints)], "type", NoneValue) = "SOLID"
    THEN [paints EXCEPT ![FirstVisibleIndex(paints)] = PaintAfterSolid(@)]
    ELSE paints

\* a visible node with a box after node_to_html built its element: its
\* fills were resolved and, unless it is a text node, its strokes
NodeAfter(node) ==
    [k \in DOMAIN node |->
        IF k = "fills" \/ (k = "strokes" /\ Get(node, "type", NoneValue) # "TEXT")
        THEN PaintsAfter(node[k])
        ELSE node[k]]

\* the document after a walk that made the calls
TreeAfterWalk(tree, calls) ==
    [i \in DOMAIN tree |->
        IF /\ \E k \in 1..Len(calls) : calls[k].node = i
           /\ IsVisible(tree[i])
           /\ Truthy(Get(tree[i], "absoluteBoundingBox", EmptyDict))
        THEN NodeAfter(tree[i])
        ELSE tree[i]]

HalfRed == [type |-> "SOLID", color |-> [r |-> Unit, g |-> 0, b |-> 0, a |-> Unit],
            opacity |-> 4]

InstanceNodes(i) ==
    { Typed(i, "TEXT") @@ [absoluteBoundingBox |-> Box(i)],
      Typed(i, "TEXT") @@ [absoluteBoundingBox |-> Box(i), visible |-> FALSE],
      [id |-> NodeId(i), name |-> NameOf(i), type |-> "FRAME",
       absoluteBoundingBox |-> Box(i), fills |-> <<Hidden(White), HalfRed, White>>,
       strokes |-> <<HalfRed>>],
      Typed(i, "RECTANGLE") @@ [absoluteBoundingBox |-> Box(i)],
      [id |-> NodeId(i), name |-> NameOf(i), type |-> "GROUP"] }

\* converter = FigmaToHTMLConverter(api_key), and a document
InitInstance ==
    /\ arg \in Documents(NumInstanceNodes, [i \in 1..NumInstanceNodes |-> InstanceNodes(i)])
    /\ ret = NoCall
    /\ image_fills = EmptyDict
    /\ fonts_used = {}
    /\ Idle

\* what the caller held before the call
Before == [tree |-> arg, fonts |-> fonts_used, image_fills |-> image_fills]

InstanceWalked(n, w) ==
    /\ ret' = [op |-> "node_to_html", node |-> n, out |-> w.out, calls |-> w.calls,
               before |-> Before]
    /\ fonts_used' = w.fonts
    /\ arg' = TreeAfterWalk(arg, w.calls)

\* converter.node_to_html(node)
InstanceNodeToHtml ==
    \E n \in DOMAIN arg :
        /\ InstanceWalked(n, node_to_html(image_fills, fonts_used, arg, n, EmptyDict, 0))
        /\ UNCHANGED <<image_fills, runVars>>

\* converter.find_frames(document)
InstanceFindFrames ==
    /\ ret' = [op |-> "find_frames", node |-> 1, out |-> Return(find_frames(arg, 1)),
               before |-> Before]
    /\ UNCHANGED <<arg, image_fills, fonts_used, runVars>>

\* converter.collect_image_nodes(node, [])
InstanceCollectImageNodes ==
    \E n \in DOMAIN arg :
        /\ ret' = [op |-> "collect_image_nodes", node |-> n,
                   out |-> Return(collect_image_nodes(arg, n)), before |-> Before]
        /\ UNCHANGED <<arg, image_fills, fonts_used, runVars>>

\* converter.build_complete_html("<div>Test</div>", 800, 600)
InstanceBuildCompleteHtml ==
    /\ \E order \in Orderings(fonts_used) :
           ret' = [op |-> "build_complete_html",
                   out |-> Return(build_complete_html(order, "<div>Test</div>", 800, 600)),
                   before |-> Before]
    /\ UNCHANGED <<arg, image_fills, fonts_used, runVars>>

NextInstance ==
    \/ InstanceNodeToHtml
    \/ InstanceFindFrames
    \/ InstanceCollectImageNodes
    \/ InstanceBuildCompleteHtml

SpecInstance == InitInstance /\ [][NextInstance]_vars

(***************************************************************************)
(* SpecRun: one run of main: the credential check, generate_html with its  *)
(* two requests, and the write of the output file.  The responses of the   *)
(* Figma API and the outcome of the write are the environment's choice.    *)
(* The steps are the stretches of main / generate_html between two         *)
(* exchanges with the outside.                                             *)
(***************************************************************************)
RunTypes == {"FRAME", "RECTANGLE", "TEXT", "VECTOR", "CANVAS"}

\* the nodes of a fetched document: a CANVAS has no box, a VECTOR carries a
\* paint of a kind the converter does not know, a FRAME may be hidden
RunNodes(i) ==
    { Typed(i, "FRAME") @@ [absoluteBoundingBox |-> Box(i)],
      Typed(i, "FRAME") @@ [absoluteBoundingBox |-> Box(i), visible |-> FALSE],
      Typed(i, "RECTANGLE") @@ [absoluteBoundingBox |-> Box(i)],
      Typed(i, "TEXT") @@ [absoluteBoundingBox |-> Box(i)],
      Typed(i, "VECTOR") @@ [absoluteBoundingBox |-> Box(i),
                             fills |-> <<[type |-> "GRADIENT_RADIAL"]>>],
      Typed(i, "CANVAS") }

\* file_data.get("document", {}): a document, or {} when the key is missing
RunDocuments(n) == Documents(n, [i \in 1..n |-> RunNodes(i)]) \cup {<<EmptyDict>>}

Args ==
    [file_key : {"KEY"}, frame : {NoneValue, "Home", "Detail", "Missing"},
     output : {"output.html"}, api_key : {NoneValue, "token"}]

\* the truth value of an optional str
Given(x) == x # NoneValue /\ x # ""

base_url == "https://api.figma.com/v1"

Event(kind, text) == [kind |-> kind, text |-> text]

Printed(text) == Event("print", text)

\* response.status_code of the request before it
Status(code) == Event("status", ToString(code))

\* except Exception as e: print(f"... Error: {e}"); sys.exit(1)
\* (the printed line is modelled without its emoji prefix)
Failed(evs, message) ==
    /\ events' = evs \o <<Printed("Error: " \o message)>>
    /\ exit_code' = 1
    /\ pc' = "exited"

InitRun ==
    /\ arg \in Args
    /\ ret = NoCall
    /\ image_fills = EmptyDict
    /\ fonts_used = {}
    /\ pc = "main"
    /\ file_data = NoneValue
    /\ frame_name = NoneValue
    /\ frames = <<>>
    /\ selected_frame = 0
    /\ image_nodes = <<>>
    /\ body_html = NoneValue
    /\ html = NoneValue
    /\ output_file = NoneValue
    /\ exit_code = NoneValue
    /\ events = <<>>

\* main up to the call of generate_html
MainStart ==
    /\ pc = "main"
    /\ IF ~ Given(arg.api_key)
       THEN /\ events' = events \o <<Printed("Error: Figma API key required. Set FIGMA_API_KEY environment variable or use --api-key")>>
            /\ exit_code' = 1
            /\ pc' = "exited"
            /\ UNCHANGED <<image_fills, fonts_used, frame_name>>
       ELSE /\ image_fills' = EmptyDict
            /\ fonts_used' = {}
            /\ frame_name' = arg.frame
            /\ pc' = "get_file_data"
            /\ UNCHANGED <<events, exit_code>>
    /\ UNCHANGED <<arg, ret, file_data, frames, selected_frame, image_nodes, body_html,
                   html, output_file>>

\* get_file_data: the request and its response
GetFileData ==
    /\ pc = "get_file_data"
    /\ LET evs == events \o <<Printed("Fetching Figma file data..."),
                             Event("GET", base_url \o "/files/" \o arg.file_key)>>
       IN  \/ \E document \in RunDocuments(NumNodes) :
                  /\ file_data' = document
                  /\ events' = evs \o <<Status(200)>>
                  /\ pc' = "find_frames"
                  /\ UNCHANGED exit_code
           \/ \E status \in {403, 404} :
                  /\ Failed(evs \o <<Status(status)>>,
                            "Failed to fetch Figma file: " \o ToString(status) \o " - ")
                  /\ UNCHANGED file_data
    /\ UNCHANGED <<arg, ret, image_fills, fonts_used, frame_name, frames, selected_frame,
                   image_nodes, body_html, html, output_file>>

\* the bug of taking the last frame of the name instead of the first
FirstNamed_last(tree, found, name) ==
    IF \E k \in 1..Len(found) : Get(tree[found[k]], "name", NoneValue) = name
    THEN found[CHOOSE k \in 1..Len(found) :
                   /\ Get(tree[found[k]], "name", NoneValue) = name
                   /\ \A j \in (k + 1)..Len(found) :
                          Get(tree[found[j]], "name", NoneValue) # name]
    ELSE 0

\* next((f for f in frames if f.get("name") == frame_name), None), 0 for None
FirstNamed(tree, found, name) ==
    IF \E k \in 1..Len(found) : Get(tree[found[k]], "name", NoneValue) = name
    THEN found[CHOOSE k \in 1..Len(found) :
                   /\ Get(tree[found[k]], "name", NoneValue) = name
                   /\ \A j \in 1..(k - 1) : Get(tree[found[j]], "name", NoneValue) # name]
    ELSE 0

\* generate_html from `if not frames` to collect_image_nodes (lines 481-501);
\* found is what find_frames(document) returned
SelectFrameFrom(found) ==
    LET named == FirstNamed(file_data, found, frame_name)
        selected == IF Given(frame_name) THEN named ELSE found[1]
        listing == [k \in 1..Len(found) |->
                       Printed("  - " \o Get(file_data[found[k]], "name", NoneValue))]
        collected == collect_image_nodes(file_data, selected)
    IN  /\ frames' = found
        /\ IF found = <<>>
           THEN /\ Failed(events, "No frames found in the Figma file")
                /\ UNCHANGED <<selected_frame, image_nodes>>
           ELSE IF Given(frame_name) /\ named = 0
           THEN /\ Failed(events \o <<Printed("Frame '" \o frame_name
                                              \o "' not found. Available frames:")>>
                                 \o listing,
                          "Frame '" \o frame_name \o "' not found")
                /\ UNCHANGED <<selected_frame, image_nodes>>
           ELSE /\ selected_frame' = selected
                /\ image_nodes' = collected
                /\ events' = events
                       \o (IF Given(frame_name) THEN <<>>
                           ELSE <<Printed("Using frame: "
                                          \o Get(file_data[selected], "name", NoneValue))>>)
                       \o (IF collected # <<>>
                           THEN <<Printed("Fetching " \o ToString(Len(collected))
                                          \o " image fills...")>>
                           ELSE <<>>)
                /\ pc' = IF collected # <<>> THEN "get_image_fills" ELSE "node_to_html"
                /\ UNCHANGED exit_code

\* the bug of converting the document itself when there is no frame
SelectFrame_root_fallback ==
    /\ pc = "find_frames"
    /\ SelectFrameFrom(IF find_frames(file_data, 1) = <<>> THEN <<1>>
                       ELSE find_frames(file_data, 1))
    /\ UNCHANGED <<arg, ret, image_fills, fonts_used, file_data, frame_name, body_html,
                   html, output_file>>

\* generate_html from find_frames to collect_image_nodes (lines 476-501)
SelectFrame ==
    /\ pc = "find_frames"
    /\ SelectFrameFrom(find_frames(file_data, 1))
    /\ UNCHANGED <<arg, ret, image_fills, fonts_used, file_data, frame_name, body_html,
                   html, output_file>>

\* the bodies the images endpoint may answer a 200 with: a URL for every id
\* asked for, or no "images" key
ImageResponses(ids) ==
    { [id \in { ids[k] : k \in 1..Len(ids) } |-> ImageUrl(id)], EmptyDict }

\* get_image_fills(file_key, image_nodes) for a non-empty list: the request
\* and its response; self.image_fills = what it returns
GetImageFills ==
    /\ pc = "get_image_fills"
    /\ LET evs == events \o <<Event("GET", base_url \o "/images/" \o arg.file_key
                                            \o "?ids=" \o Join(",", image_nodes))>>
       IN  \/ \E images \in ImageResponses(image_nodes) :
                  /\ image_fills' = images
                  /\ events' = evs \o <<Status(200)>>
           \/ \E status \in {403, 500} :
                  /\ image_fills' = EmptyDict
                  /\ events' = evs \o <<Status(status)>>
    /\ pc' = "node_to_html"
    /\ UNCHANGED <<arg, ret, fonts_used, file_data, frame_name, frames, selected_frame,
                   image_nodes, body_html, html, output_file, exit_code>>

\* lines 508-516 and main's lines 614-619: the document is assembled with the
\* fonts in iteration order `order`, and written, or the write fails
WriteOutput(evs, body, bbox, order, doc) ==
    /\ body_html' = body
    /\ html' = doc
    /\ \/ /\ output_file' = doc
          /\ events' = evs \o
                 <<Event("write", arg.output),
                   Printed("Successfully generated: " \o arg.output),
                   Printed("   Fonts used: "
                           \o (IF order # <<>> THEN Join(", ", order) ELSE "None"))>>
          /\ exit_code' = 0
          /\ pc' = "exited"
       \/ /\ Failed(evs, "[Errno 13] Permission denied: '" \o arg.output \o "'")
          /\ UNCHANGED output_file

\* w is what node_to_html(selected_frame) did
Converted(evs, w, bbox) ==
    /\ fonts_used' = w.fonts
    /\ IF w.out.kind = "raise"
       THEN /\ Failed(evs, "maximum recursion depth exceeded")
            /\ UNCHANGED <<body_html, html, output_file>>
       ELSE \E order \in Orderings(w.fonts) :
                WriteOutput(evs, w.out.value, bbox, order,
                            build_complete_html(order, w.out.value,
                                                Get(bbox, "width", 800),
                                                Get(bbox, "height", 600)))

\* generate_html from node_to_html on (lines 504-516), then main's write of
\* the file (lines 614-619)
Convert ==
    /\ pc = "node_to_html"
    /\ Converted(events \o <<Printed("Generating HTML...")>>,
                 node_to_html(image_fills, fonts_used, file_data, selected_frame,
                              EmptyDict, 0),
                 Get(file_data[selected_frame], "absoluteBoundingBox", EmptyDict))
    /\ UNCHANGED <<arg, ret, image_fills, file_data, frame_name, frames, selected_frame,
                   image_nodes>>

NextRun == MainStart \/ GetFileData \/ SelectFrame \/ GetImageFills \/ Convert

SpecRun == InitRun /\ [][NextRun]_vars

(***************************************************************************)
(* SpecReuse: a caller that constructs one converter and calls             *)
(* generate_html on it several times, writing each result as main does.    *)
(* A call is over when pc = "exited"; ret counts the calls and keeps the   *)
(* image map the converter held when the call began.                       *)
(***************************************************************************)
ReuseNodes(i) ==
    { Typed(i, "FRAME") @@ [absoluteBoundingBox |-> Box(i)],
      Typed(i, "RECTANGLE") @@ [absoluteBoundingBox |-> Box(i)],
      Typed(i, "TEXT") @@ [absoluteBoundingBox |-> Box(i)] }

ReuseDocuments == Documents(NumReuseNodes, [i \in 1..NumReuseNodes |-> ReuseNodes(i)])

\* converter = FigmaToHTMLConverter("token")
InitReuse ==
    /\ arg = [file_key |-> "KEY", frame |-> NoneValue, output |-> "output.html",
              api_key |-> "token"]
    /\ ret = [op |-> "generate_html", run |-> 0, earlier |-> EmptyDict]
    /\ image_fills = EmptyDict
    /\ fonts_used = {}
    /\ pc = "constructed"
    /\ file_data = NoneValue
    /\ frame_name = NoneValue
    /\ frames = <<>>
    /\ selected_frame = 0
    /\ image_nodes = <<>>
    /\ body_html = NoneValue
    /\ html = NoneValue
    /\ output_file = NoneValue
    /\ exit_code = NoneValue
    /\ events = <<>>

\* converter.generate_html(file_key, frame_name) up to the document it
\* fetched (lines 473-476): the locals of the call are new, the fields of
\* the converter are what the call before left
ReuseGenerateHtml ==
    /\ pc \in {"constructed", "exited"}
    /\ ret.run < MaxRuns
    /\ ret' = [op |-> "generate_html", run |-> ret.run + 1, earlier |-> image_fills]
    /\ frame_name' \in {NoneValue, "Home", "Detail"}
    /\ file_data' \in ReuseDocuments
    /\ events' = <<Printed("Fetching Figma file data..."),
                   Event("GET", base_url \o "/files/" \o arg.file_key), Status(200)>>
    /\ frames' = <<>>
    /\ selected_frame' = 0
    /\ image_nodes' = <<>>
    /\ body_html' = NoneValue
    /\ html' = NoneValue
    /\ exit_code' = NoneValue
    /\ pc' = "find_frames"
    /\ UNCHANGED <<arg, image_fills, fonts_used, output_file>>

NextReuse == ReuseGenerateHtml \/ SelectFrame \/ GetImageFills \/ Convert

SpecReuse == InitReuse /\ [][NextReuse]_vars

(***************************************************************************)
(* The properties.                                                         *)
(***************************************************************************)
StartsWith(s, prefix) == Len(s) >= Len(prefix) /\ SubSeq(s, 1, Len(prefix)) = prefix

BBoxOf(node) == Get(node, "absoluteBoundingBox", EmptyDict)

\* C1: get_fills_css terminates and returns a paint token, without raising,
\* for every list of paints of the kinds solid, linear gradient, image and
\* other, whatever their visibility flags and the node id.  (SpecFills)
C1_FillsTotal == ret.op = "get_fills_css" => ret.out.kind = "return"

\* the pruned tree: the hidden nodes are taken out of every list of children
C2_Pruned(tree) ==
    [i \in DOMAIN tree |->
        IF Has(tree[i], "children")
        THEN LET Shown(c) == IsVisible(tree[c])
             IN  [tree[i] EXCEPT !.children = SelectSeq(@, Shown)]
        ELSE tree[i]]

\* C2: a node whose own visibility flag is false contributes no output, for
\* itself or for any descendant, whatever the descendants' flags: the walk of
\* a hidden node returns the empty string, the walk of any node returns (and
\* adds the fonts) what it returns on the tree without the hidden nodes and
\* what is below them, and no call is made on a child of a hidden node.
\* (SpecWalk)
C2_InvisibleSilent ==
    ret.op = "node_to_html" =>
        /\ ~ IsVisible(arg[ret.node]) =>
               ret.out = Return("") /\ fonts_used = {} /\ Len(ret.calls) = 1
        /\ ret.out = node_to_html(image_fills, {}, C2_Pruned(arg), ret.node,
                                  EmptyDict, 0).out
        /\ fonts_used = node_to_html(image_fills, {}, C2_Pruned(arg), ret.node,
                                     EmptyDict, 0).fonts
        /\ \A k \in 2..Len(ret.calls) :
               \E j \in 1..(k - 1) :
                   /\ IsVisible(arg[ret.calls[j].node])
                   /\ \E c \in 1..Len(Children(arg, ret.calls[j].node)) :
                          Children(arg, ret.calls[j].node)[c] = ret.calls[k].node

\* a shown root with a box, its hidden child, and below it a shown text
C2_Witness ==
    /\ ret.op = "node_to_html" /\ ret.node = 1
    /\ IsVisible(arg[1]) /\ Truthy(BBoxOf(arg[1]))
    /\ Children(arg, 1) = <<2>> /\ ~ IsVisible(arg[2])
    /\ Children(arg, 2) = <<3>> /\ IsVisible(arg[3]) /\ arg[3].type = "TEXT"
    /\ Truthy(BBoxOf(arg[3]))
    /\ ret.out.kind = "return" /\ ret.out.value # ""
    /\ Len(ret.calls) = 2

\* C3: the walk of a visible node with a bounding box, called without a
\* parent box, emits the node at the origin, left = 0 and top = 0, whatever
\* the x and y of its box.  (SpecWalk)
C3_RootAtOrigin ==
    (/\ ret.op = "node_to_html"
     /\ IsVisible(arg[ret.node])
     /\ Truthy(BBoxOf(arg[ret.node]))) =>
        /\ ret.out.kind = "return"
        /\ \E class \in {"text-node", Lower(arg[ret.node].type) \o "-node"} :
               StartsWith(ret.out.value,
                          "<div class=\"" \o class
                              \o "\" style=\"position: absolute; left: 0px; top: 0px; ")

\* the status codes of the responses received so far that are not 2xx
BadStatuses ==
    { k \in 1..Len(events) :
          events[k].kind = "status" /\ ~ StartsWith(events[k].text, "2") }

\* C4: a non-2xx response to either request, the document's or the image
\* URLs', is fatal: the run ends with a non-zero exit and without an output
\* document, and no request follows the failed one.  (SpecRun)
C4_Non2xxFatal ==
    \A k \in BadStatuses :
        /\ \A j \in (k + 1)..Len(events) : events[j].kind \notin {"GET", "write"}
        /\ pc = "exited" => exit_code = 1 /\ html = NoneValue /\ output_file = NoneValue

C5_NonEmpty(part) == part # ""

\* the html of the children of node i, each walked with the box and the depth
C5_ChildOutputs(tree, i, box, depth) ==
    [k \in 1..Len(Children(tree, i)) |->
        node_to_html(image_fills, {}, tree, Children(tree, i)[k], box, depth).out.value]

\* C5: a visible node without a bounding box emits no element of its own:
\* whatever parent box and depth the walk hands it, what it returns is the
\* non-empty outputs of its children, each walked with that same parent box
\* and depth, in child order, joined by a newline; and the walk does call
\* each child with that box and depth.  (SpecWalk)
C5_PassThrough ==
    ret.op = "node_to_html" =>
        \A k \in 1..Len(ret.calls) :
            LET c == ret.calls[k]
                expected == Return(Join("\n", SelectSeq(C5_ChildOutputs(arg, c.node,
                                                            c.parent_box, c.depth),
                                                        C5_NonEmpty)))
            IN  (IsVisible(arg[c.node]) /\ ~ Truthy(BBoxOf(arg[c.node]))) =>
                    /\ node_to_html(image_fills, {}, arg, c.node, c.parent_box,
                                    c.depth).out = expected
                    /\ k = 1 => ret.out = expected
                    /\ \A j \in 1..Len(Children(arg, c.node)) :
                           \E m \in (k + 1)..Len(ret.calls) :
                               ret.calls[m] = WalkCall(Children(arg, c.node)[j],
                                                       c.parent_box, c.depth)

\* a frame whose child has no box and a text below it: the text is placed
\* relative to the frame, one level below it
C5_Witness ==
    /\ ret.op = "node_to_html" /\ ret.node = 1
    /\ IsVisible(arg[1]) /\ Truthy(BBoxOf(arg[1])) /\ arg[1].type = "FRAME"
    /\ Children(arg, 1) = <<2>> /\ IsVisible(arg[2]) /\ ~ Truthy(BBoxOf(arg[2]))
    /\ Children(arg, 2) = <<3>> /\ IsVisible(arg[3]) /\ Truthy(BBoxOf(arg[3]))
    /\ arg[3].type = "TEXT"
    /\ ret.calls[2] = WalkCall(2, Box(1), 1)
    /\ ret.calls[3] = WalkCall(3, Box(1), 1)
    /\ ret.out.kind = "return"

\* the parent of a node other than the root
C6_Parent(tree, i) ==
    CHOOSE p \in DOMAIN tree : \E c \in 1..Len(Children(tree, p)) : Children(tree, p)[c] = i

RECURSIVE C6_Ancestors(_, _)
\* the proper ancestors of a node of a tree rooted at 1
C6_Ancestors(tree, i) ==
    IF i = 1 THEN {} ELSE {C6_Parent(tree, i)} \cup C6_Ancestors(tree, C6_Parent(tree, i))

RECURSIVE C6_Path(_, _)
\* the positions in the lists of children that lead from the root to a node
C6_Path(tree, i) ==
    IF i = 1 THEN <<>>
    ELSE Append(C6_Path(tree, C6_Parent(tree, i)),
                CHOOSE c \in 1..Len(Children(tree, C6_Parent(tree, i))) :
                    Children(tree, C6_Parent(tree, i))[c] = i)

\* node a comes before node b in depth-first pre-order: a is an ancestor of
\* b, or the paths part at a position where a's goes to an earlier child
C6_Before(tree, a, b) ==
    LET p == C6_Path(tree, a)
        q == C6_Path(tree, b)
    IN  \E k \in 1..Len(q) :
            /\ k <= Len(p) + 1
            /\ \A j \in 1..(k - 1) : p[j] = q[j]
            /\ k = Len(p) + 1 \/ p[k] < q[k]

C6_IsShownFrame(node) == Get(node, "type", NoneValue) = "FRAME" /\ IsVisible(node)

\* C6: find_frames returns exactly the FRAME nodes whose own visibility flag
\* is true, each once, in depth-first pre-order, also those below hidden
\* ancestors; the walk of the same document root makes no call on a frame
\* that is below a hidden node.  (SpecFrames)
C6_FramesPreOrder ==
    /\ ret.op = "find_frames" =>
           /\ ret.out.kind = "return"
           /\ \A i \in DOMAIN arg :
                  C6_IsShownFrame(arg[i])
                      <=> \E k \in 1..Len(ret.out.value) : ret.out.value[k] = i
           /\ \A j, k \in 1..Len(ret.out.value) :
                  j < k => C6_Before(arg, ret.out.value[j], ret.out.value[k])
    /\ ret.op = "node_to_html" =>
           \A i \in DOMAIN arg :
               (\E h \in C6_Ancestors(arg, i) : ~ IsVisible(arg[h])) =>
                   \A k \in 1..Len(ret.calls) : ret.calls[k].node # i

\* a frame below a hidden node comes after the root and before the root's
\* later child
C6_Witness ==
    /\ ret.op = "find_frames"
    /\ ~ IsVisible(arg[2])
    /\ Children(arg, 1) = <<2, 3>> /\ Children(arg, 2) = <<4>>
    /\ ret.out.value = <<1, 4, 3>>

\* C7: get_fills_css returns 'transparent' for a list that is empty or has no
\* visible entry; otherwise what it does is what it does on the first
\* visible entry alone, so that after an entry behind the first visible one
\* was added, removed or changed the result is the one from before.
\* (SpecFills; a raise is a result here.)
C7_FirstVisibleOnly ==
    ret.op = "get_fills_css" =>
        /\ IF FirstVisibleIndex(arg.fills) = 0
           THEN ret.out = Return("transparent")
           ELSE ret.out = get_fills_css(image_fills,
                                        <<arg.fills[FirstVisibleIndex(arg.fills)]>>,
                                        arg.node_id)
        /\ Has(ret, "before") => ret.out = ret.before

\* after an edit behind it, a red first visible fill behind a hidden one, with
\* two different visible fills after it
C7_Witness ==
    /\ ret.op = "get_fills_css" /\ Has(ret, "before")
    /\ Len(arg.fills) = 3
    /\ ~ IsVisible(arg.fills[1])
    /\ arg.fills[2] = [type |-> "SOLID", color |-> Opaque(Unit, 0, 0)]
    /\ arg.fills[3] = [type |-> "IMAGE"]
    /\ ret.out = Return("rgb(255, 0, 0)")

C8_Aliases ==
    << <<"rectangleCornerTopLeftRadius", "topLeftRadius", "cornerTopLeftRadius">>,
       <<"rectangleCornerTopRightRadius", "topRightRadius", "cornerTopRightRadius">>,
       <<"rectangleCornerBottomRightRadius", "bottomRightRadius",
         "cornerBottomRightRadius">>,
       <<"rectangleCornerBottomLeftRadius", "bottomLeftRadius",
         "cornerBottomLeftRadius">> >>

C8_Px(v) == ToString(v) \o "px"

\* the value of the first alias of corner c the node has, 0 without one
C8_Corner(node, c) ==
    IF Has(node, C8_Aliases[c][1]) THEN node[C8_Aliases[c][1]]
    ELSE IF Has(node, C8_Aliases[c][2]) THEN node[C8_Aliases[c][2]]
    ELSE IF Has(node, C8_Aliases[c][3]) THEN node[C8_Aliases[c][3]]
    ELSE 0

C8_Four(tl, tr, br, bl) ==
    IF tl = tr /\ tr = br /\ br = bl THEN C8_Px(tl)
    ELSE C8_Px(tl) \o " " \o C8_Px(tr) \o " " \o C8_Px(br) \o " " \o C8_Px(bl)

\* C8: get_border_radius takes the uniform field before the 4-element
\* sequence before the per-corner aliases, and gives '0px' without any: with
\* the uniform field '<value>px'; else from the sequence, else from the first
\* present alias of each corner (a corner without one is 0), four equal
\* values as the one '<value>px' and unequal ones as '<tl>px <tr>px <br>px
\* <bl>px'.  (SpecRadius)
C8_RadiusPrecedence ==
    ret.op = "get_border_radius" =>
        ret.out = Return(
            IF Has(arg, "cornerRadius") THEN C8_Px(arg.cornerRadius)
            ELSE IF Has(arg, "rectangleCornerRadii") /\ Len(arg.rectangleCornerRadii) = 4
            THEN C8_Four(arg.rectangleCornerRadii[1], arg.rectangleCornerRadii[2],
                         arg.rectangleCornerRadii[3], arg.rectangleCornerRadii[4])
            ELSE IF \E c \in 1..4, a \in 1..3 : Has(arg, C8_Aliases[c][a])
            THEN C8_Four(C8_Corner(arg, 1), C8_Corner(arg, 2), C8_Corner(arg, 3),
                         C8_Corner(arg, 4))
            ELSE "0px")

\* all three representations at once, each saying something else
C8_Witness ==
    /\ ret.op = "get_border_radius"
    /\ Has(arg, "cornerRadius") /\ arg.cornerRadius = 1
    /\ Has(arg, "rectangleCornerRadii") /\ arg.rectangleCornerRadii = <<0, 1, 2, 1>>
    /\ Has(arg, "rectangleCornerTopLeftRadius") /\ arg.rectangleCornerTopLeftRadius = 2
    /\ Has(arg, "topLeftRadius")
    /\ ret.out = Return("1px")

\* t is c * 255 cut off towards zero, c a numerator over Unit
C9_IsTruncated(c, t) ==
    IF c >= 0 THEN Unit * t <= c * 255 /\ c * 255 < Unit * (t + 1)
    ELSE Unit * t >= c * 255 /\ c * 255 > Unit * (t - 1)

C9_Truncated == [c \in Channels |-> CHOOSE t \in (0 - 255)..(2 * 255) : C9_IsTruncated(c, t)]

C9_Rgb(self) ==
    ToString(C9_Truncated[self.r]) \o ", " \o ToString(C9_Truncated[self.g]) \o ", "
        \o ToString(C9_Truncated[self.b])

\* C9: to_css gives 'rgb(r, g, b)' without an alpha channel when alpha >= 1.0
\* and 'rgba(r, g, b, alpha)' with the alpha as it is when alpha < 1.0; there
\* and in to_hex each of r, g, b is channel * 255 cut off, not rounded:
\* Color(1.0, 0.5, 0.0) gives 'rgb(255, 127, 0)' and '#ff7f00'.  (SpecColor)
C9_ColorTruncation ==
    /\ ret.op = "to_css" =>
           /\ ret.out = Return(IF arg.a >= Unit2
                               THEN "rgb(" \o C9_Rgb(arg) \o ")"
                               ELSE "rgba(" \o C9_Rgb(arg) \o ", " \o FloatStr(arg.a)
                                        \o ")")
           /\ arg = Color(Unit, Unit \div 2, 0, Unit2) => ret.out = Return("rgb(255, 127, 0)")
    /\ ret.op = "to_hex" =>
           /\ ret.out = Return("#" \o Hex02(C9_Truncated[arg.r])
                                   \o Hex02(C9_Truncated[arg.g])
                                   \o Hex02(C9_Truncated[arg.b]))
           /\ arg = Color(Unit, Unit \div 2, 0, Unit2) => ret.out = Return("#ff7f00")

\* Color(1.0, 0.5, 0.0, 0.5): 127.5 is cut off to 127
C9_Witness ==
    /\ ret.op = "to_css"
    /\ arg = Color(Unit, Unit \div 2, 0, Unit2 \div 2)
    /\ ret.out = Return("rgba(255, 127, 0, 0.5)")

\* a request for image URLs is among the events
C10_ImagesRequested ==
    \E k \in 1..Len(events) :
        events[k].kind = "GET" /\ StartsWith(events[k].text, base_url \o "/images/")

\* the document was fetched: its request was answered with a 200
C10_Fetched ==
    \E k \in 2..Len(events) :
        /\ events[k - 1] = Event("GET", base_url \o "/files/" \o arg.file_key)
        /\ events[k] = Status(200)

\* C10: when find_frames finds no frame in the fetched document,
\* generate_html fails before image URLs are asked for, the tree is walked
\* or the page is assembled: the run ends with exit code 1 on the message
\* that there are no frames, and nothing is written.  (SpecRun)
C10_NoFramesFatal ==
    (/\ C10_Fetched
     /\ pc # "find_frames"
     /\ find_frames(file_data, 1) = <<>>) =>
        /\ pc = "exited" /\ exit_code = 1
        /\ events[Len(events)] = Printed("Error: No frames found in the Figma file")
        /\ ~ C10_ImagesRequested
        /\ image_nodes = <<>> /\ image_fills = EmptyDict
        /\ body_html = NoneValue /\ fonts_used = {}
        /\ html = NoneValue
        /\ output_file = NoneValue

\* a document whose only frame is hidden and holds an image
C10_Witness ==
    /\ pc = "exited" /\ exit_code = 1
    /\ C10_Fetched /\ Len(file_data) = NumNodes
    /\ frames = <<>>
    /\ file_data[1].type = "CANVAS"
    /\ file_data[2].type = "FRAME" /\ ~ IsVisible(file_data[2])
    /\ Children(file_data, 2) = <<3>> /\ HasImageFill(file_data[3])

\* the positions in frames of the frames of the requested name
C11_Matching == { k \in 1..Len(frames) : file_data[frames[k]].name = frame_name }

\* what a run prints when the requested name is not among the frames: the
\* heading, the name of every frame in the order of discovery, the failure
C11_NotFoundReport ==
    <<Printed("Frame '" \o frame_name \o "' not found. Available frames:")>>
        \o [k \in 1..Len(frames) |-> Printed("  - " \o file_data[frames[k]].name)]
        \o <<Printed("Error: Frame '" \o frame_name \o "' not found")>>

\* C11: once generate_html has found frames (frames is what find_frames
\* returned on the document): without a frame name the first of them is
\* selected; with a name the first frame of exactly that name is; and when no
\* frame has the name, the run ends having printed the names of all the
\* frames, then the failure, with no frame selected, no request for images,
\* no walk and no output.  (SpecRun)
C11_RootSelection ==
    frames # <<>> =>
        /\ frames = find_frames(file_data, 1)
        /\ IF ~ Given(frame_name) THEN selected_frame = frames[1]
           ELSE IF C11_Matching # {}
           THEN /\ selected_frame \in { frames[k] : k \in C11_Matching }
                /\ \A k \in C11_Matching :
                       \A j \in 1..(k - 1) : selected_frame = frames[k] => j \notin C11_Matching
           ELSE /\ pc = "exited" /\ exit_code = 1
                /\ selected_frame = 0
                /\ Len(events) >= Len(C11_NotFoundReport)
                /\ SubSeq(events, Len(events) - Len(C11_NotFoundReport) + 1, Len(events))
                       = C11_NotFoundReport
                /\ ~ C10_ImagesRequested
                /\ body_html = NoneValue /\ fonts_used = {}
                /\ html = NoneValue /\ output_file = NoneValue

\* "Detail" is asked for, and the only node of that name is a hidden frame
\* between two shown frames called "Home"
C11_Witness ==
    /\ pc = "exited"
    /\ frame_name = "Detail"
    /\ frames = <<1, 3>>
    /\ file_data[2].type = "FRAME" /\ ~ IsVisible(file_data[2])
    /\ events[Len(events) - 2] = Printed("  - Home")
    /\ events[Len(events) - 1] = Printed("  - Home")

\* the number of places of s where sub begins
C12_Count(s, sub) ==
    Cardinality({ i \in 1..(Len(s) - Len(sub) + 1) : SubSeq(s, i, i + Len(sub) - 1) = sub })

\* the family as it stands in the link: every space a "+"
C12_Plus(family) ==
    CASE family = "Open Sans" -> "Open+Sans"
      [] family = "Roboto Mono" -> "Roboto+Mono"
      [] OTHER -> family

\* C12: build_complete_html returns a document that begins with the
\* document-type declaration, has a head and a body, holds the fragment as
\* it is inside the root container, and gives the root container the width
\* and the height; it has a font link if and only if fonts_used is not
\* empty, and then one link, which lists every member of the set, and only
\* them.  (SpecAssemble)
C12_DocumentShape ==
    ret.op = "build_complete_html" =>
        /\ ret.out.kind = "return"
        /\ StartsWith(ret.out.value, "<!DOCTYPE html>\n<html")
        /\ C12_Count(ret.out.value, "<head>") = 1
        /\ C12_Count(ret.out.value, "</head>\n<body>\n") = 1
        /\ C12_Count(ret.out.value, "</body>\n</html>") = 1
        /\ Contains(ret.out.value,
                    "<body>\n    <div id=\"figma-frame\">\n        " \o arg.body_content
                        \o "\n    </div>\n</body>")
        /\ Contains(ret.out.value,
                    "#figma-frame {\n            position: relative;\n            width: "
                        \o ToString(arg.width) \o "px;\n            height: "
                        \o ToString(arg.height) \o "px;\n")
        /\ C12_Count(ret.out.value, "<link ") = (IF fonts_used = {} THEN 0 ELSE 1)
        /\ fonts_used # {} =>
               \E order \in Orderings(fonts_used) :
                   Contains(ret.out.value,
                            "<link href=\"https://fonts.googleapis.com/css2?family="
                                \o Join("|", [i \in 1..Len(order) |-> C12_Plus(order[i])])
                                \o ":wght@100;200;300;400;500;600;700;800;900&display=swap\" rel=\"stylesheet\">")

\* the fragment of the test, 800 by 600, and two families, one with a space
C12_Witness ==
    /\ ret.op = "build_complete_html"
    /\ arg = [body_content |-> "<div>Test</div>", width |-> 800, height |-> 600]
    /\ fonts_used = {"Inter", "Open Sans"}
    /\ Contains(ret.out.value, "family=Open+Sans|Inter:wght@")

\* the node has a fill that is an image and is not hidden
C13_ShowsImage(node) ==
    /\ Has(node, "fills")
    /\ \E k \in 1..Len(node.fills) :
           /\ node.fills[k].type = "IMAGE"
           /\ (Has(node.fills[k], "visible") => node.fills[k].visible)

\* the nodes of the subtree of node n
C13_Subtree(tree, n) == { i \in DOMAIN tree : i = n \/ n \in C6_Ancestors(tree, i) }

\* C13: collect_image_nodes appends the id of every node of the subtree it
\* is called on that has a visible IMAGE fill, hidden nodes and what is
\* below them included, each once however many image fills it has, in
\* depth-first pre-order, and no other id.  (SpecCollect)
C13_ImageNodesPreOrder ==
    ret.op = "collect_image_nodes" =>
        /\ ret.out.kind = "return"
        /\ \A i \in DOMAIN arg :
               Cardinality({ k \in 1..Len(ret.out.value) : ret.out.value[k] = arg[i].id })
                   = (IF i \in C13_Subtree(arg, ret.node) /\ C13_ShowsImage(arg[i])
                      THEN 1 ELSE 0)
        /\ \A k \in 1..Len(ret.out.value) : \E i \in DOMAIN arg : ret.out.value[k] = arg[i].id
        /\ \A j, k \in 1..Len(ret.out.value) :
               j < k => \E a, b \in DOMAIN arg :
                            /\ arg[a].id = ret.out.value[j]
                            /\ arg[b].id = ret.out.value[k]
                            /\ C6_Before(arg, a, b)

\* a hidden node with an image and two children: the first has two image
\* fills and a child with an image of its own, the second a shown image
\* behind a hidden one
C13_Witness ==
    /\ ret.op = "collect_image_nodes" /\ ret.node = 1
    /\ ~ IsVisible(arg[1])
    /\ Children(arg, 1) = <<2, 3>> /\ Children(arg, 2) = <<4>>
    /\ Len(Get(arg[2], "fills", <<>>)) = 2
    /\ Len(Get(arg[3], "fills", <<>>)) = 3
    /\ ret.out.value = <<"1:1", "1:2", "1:4", "1:3">>

\* the proper ancestors of node i that the walk called on node n went through
C14_WalkedAncestors(tree, n, i) == C6_Ancestors(tree, i) \cap C13_Subtree(tree, n)

\* those of them that have a bounding box
C14_BoxedAncestors(tree, n, i) ==
    { a \in C14_WalkedAncestors(tree, n, i) : Truthy(BBoxOf(tree[a])) }

\* the nearest of them: the one below all the others
C14_Nearest(tree, n, i) ==
    CHOOSE a \in C14_BoxedAncestors(tree, n, i) :
        \A b \in C14_BoxedAncestors(tree, n, i) \ {a} : b \in C6_Ancestors(tree, a)

\* the depth the walk entered node p with
C14_DepthOf(calls, p) == calls[CHOOSE k \in 1..Len(calls) : calls[k].node = p].depth

\* the beginning of an element of a class at a place, of a size
C14_ElementAt(class, left, top, width, height) ==
    "<div class=\"" \o class \o "\" style=\"position: absolute; left: " \o ToString(left)
        \o "px; top: " \o ToString(top) \o "px; width: " \o ToString(width)
        \o "px; height: " \o ToString(height) \o "px"

\* C14: in a walk, every node below the node it was called on is entered
\* with the depth of its parent, plus one when the parent has a bounding box;
\* and when the node is visible, has a box, and has an ancestor in the walk
\* with a box, it is entered with the box of the nearest such ancestor, and
\* its element, which is part of the output, has left and top equal to its
\* x and y minus that box's x and y, and its own width and height.
\* (SpecWalk)
C14_RelativeGeometry ==
    ret.op = "node_to_html" =>
        \A k \in 2..Len(ret.calls) :
            LET c == ret.calls[k]
                p == C6_Parent(arg, c.node)
                box == BBoxOf(arg[c.node])
            IN  /\ c.depth = C14_DepthOf(ret.calls, p)
                                 + (IF Truthy(BBoxOf(arg[p])) THEN 1 ELSE 0)
                /\ (/\ IsVisible(arg[c.node])
                    /\ Truthy(box)
                    /\ C14_BoxedAncestors(arg, ret.node, c.node) # {}) =>
                       LET ref == BBoxOf(arg[C14_Nearest(arg, ret.node, c.node)])
                           el == node_to_html(image_fills, {}, arg, c.node, c.parent_box,
                                              c.depth).out.value
                       IN  /\ c.parent_box = ref
                           /\ Contains(ret.out.value, el)
                           /\ \E class \in {"text-node", Lower(arg[c.node].type) \o "-node"} :
                                  StartsWith(el, C14_ElementAt(class, box.x - ref.x,
                                                               box.y - ref.y, box.width,
                                                               box.height) \o "; ")

\* a frame, below it a node without a box, below that a rectangle: the
\* rectangle is placed relative to the frame, one level below it
C14_Witness ==
    /\ ret.op = "node_to_html" /\ ret.node = 1
    /\ arg[1].type = "FRAME" /\ IsVisible(arg[1]) /\ Truthy(BBoxOf(arg[1]))
    /\ Children(arg, 1) = <<2>> /\ IsVisible(arg[2]) /\ ~ Truthy(BBoxOf(arg[2]))
    /\ Children(arg, 2) = <<3>> /\ arg[3].type = "RECTANGLE"
    /\ ret.calls[3] = WalkCall(3, Box(1), 1)
    /\ Contains(ret.out.value,
                C14_ElementAt("rectangle-node", 20, 10, 70, 45))

\* the opening tag of an element: up to the first "> of its html
C15_OpenTag(el) ==
    SubSeq(el, 1, CHOOSE i \in 1..Len(el) :
                      /\ SubSeq(el, i, i + 1) = "\">"
                      /\ \A j \in 1..(i - 1) : SubSeq(el, j, j + 1) # "\">")

\* the radius the node resolves to is zero: by the uniform field when it has
\* one, else by its 4-element sequence, else by its per-corner aliases
C15_RadiusIsZero(node) ==
    IF Has(node, "cornerRadius") THEN node.cornerRadius = 0
    ELSE IF Has(node, "rectangleCornerRadii") /\ Len(node.rectangleCornerRadii) = 4
    THEN \A c \in 1..4 : node.rectangleCornerRadii[c] = 0
    ELSE \A c \in 1..4 : C8_Corner(node, c) = 0

\* C15: the element of a container has a border-radius rule if and only if
\* the radius the node resolves to is not zero, and the rule overflow: hidden
\* if and only if it has the border-radius rule.  (SpecContainer)
C15_RadiusRules ==
    ret.op = "node_to_html" =>
        \A k \in 1..Len(ret.calls) :
            LET c == ret.calls[k]
                tag == C15_OpenTag(node_to_html(image_fills, {}, arg, c.node,
                                                c.parent_box, c.depth).out.value)
            IN  /\ Contains(tag, "; border-radius: ") <=> ~ C15_RadiusIsZero(arg[c.node])
                /\ Contains(tag, "; overflow: hidden")
                       <=> Contains(tag, "; border-radius: ")

\* node i is a text node that is shown and has a bounding box
C16_IsTextLeaf(tree, i) ==
    tree[i].type = "TEXT" /\ IsVisible(tree[i]) /\ Truthy(BBoxOf(tree[i]))

C16_EndsWith(s, suffix) ==
    Len(s) >= Len(suffix) /\ SubSeq(s, Len(s) - Len(suffix) + 1, Len(s)) = suffix

\* C16: a visible text node with a bounding box is emitted as one element
\* that has no element inside and holds the node's characters; the walk does
\* not enter a node below it, and the fonts of the walk are those of the
\* text nodes it entered, so that nothing below a text node adds a font.
\* (SpecWalk)
C16_TextIsLeaf ==
    ret.op = "node_to_html" =>
        /\ \A k \in 1..Len(ret.calls) :
               C16_IsTextLeaf(arg, ret.calls[k].node) =>
                   LET c == ret.calls[k]
                       el == node_to_html(image_fills, {}, arg, c.node, c.parent_box,
                                          c.depth).out.value
                   IN  /\ StartsWith(el, "<div class=\"text-node\" style=\"")
                       /\ C16_EndsWith(el, "\">" \o arg[c.node].characters \o "</div>")
                       /\ C12_Count(el, "<div") = 1
                       /\ C12_Count(el, "</div>") = 1
                       /\ Contains(ret.out.value, el)
                       /\ \A j \in 1..Len(ret.calls) :
                              c.node \notin C6_Ancestors(arg, ret.calls[j].node)
        /\ fonts_used = { arg[ret.calls[k].node].style.fontFamily :
                              k \in { j \in 1..Len(ret.calls) :
                                          C16_IsTextLeaf(arg, ret.calls[j].node) } }

\* a text node with a text node of another font below it, and below that a
\* frame
C16_Witness ==
    /\ ret.op = "node_to_html" /\ ret.node = 1
    /\ C16_IsTextLeaf(arg, 1)
    /\ Children(arg, 1) = <<2>> /\ C16_IsTextLeaf(arg, 2)
    /\ Children(arg, 2) = <<3>> /\ arg[3].type = "FRAME" /\ IsVisible(arg[3])
    /\ Len(ret.calls) = 1
    /\ fonts_used = {"Inter"}

\* C17: no operation changes the document: after find_frames,
\* collect_image_nodes, node_to_html (with the resolvers it calls) or
\* build_complete_html every node, paint and colour is what it was before the
\* call, and so is the image map; fonts_used is empty on a new converter,
\* only a walk changes it, and after every operation it holds every family
\* it held before.  (SpecInstance)
C17_OnlyFontsGrow ==
    IF ret.op = "none" THEN fonts_used = {}
    ELSE /\ arg = ret.before.tree
         /\ image_fills = ret.before.image_fills
         /\ ret.before.fonts \subseteq fonts_used
         /\ ret.op # "node_to_html" => fonts_used = ret.before.fonts

\* a second walk, of a frame with a half-transparent fill and stroke and a
\* text below it, on a converter that had a font already: the font of the
\* text is added
C17_Witness ==
    /\ ret.op = "node_to_html" /\ ret.node = 1
    /\ arg[1].type = "FRAME" /\ Children(arg, 1) = <<2>>
    /\ arg[2].type = "TEXT" /\ IsVisible(arg[2])
    /\ Contains(ret.out.value, "background: rgba(255, 0, 0, 0.5)")
    /\ ret.before.fonts = {"Inter"}
    /\ fonts_used = {"Inter", "Open Sans"}

\* the position of an event in the run's trace, 0 when it did not happen
C18_When(e) ==
    IF \E k \in 1..Len(events) : events[k] = e
    THEN CHOOSE k \in 1..Len(events) : events[k] = e
    ELSE 0

\* the walk of the selected frame, with the image map and on the new
\* converter of the run
C18_Walk == node_to_html(image_fills, {}, file_data, selected_frame, EmptyDict, 0)

\* the nodes whose element the walk built
C18_Built(calls) ==
    { i \in { calls[k].node : k \in 1..Len(calls) } :
          IsVisible(file_data[i]) /\ Truthy(BBoxOf(file_data[i])) }

\* the background fill resolution of the node reaches the image branch
C18_ReachesImage(node) ==
    LET fills == Get(node, "fills", <<>>)
    IN  /\ fills # <<>>
        /\ Get(node, "type", NoneValue) = "TEXT" => FirstFillNotSolid(fills)
        /\ FirstVisibleIndex(fills) # 0
        /\ Get(fills[FirstVisibleIndex(fills)], "type", NoneValue) = "IMAGE"

C18_IdsOf(ids) == { ids[k] : k \in 1..Len(ids) }

\* C18: in a run of generate_html the image nodes are collected, then
\* their URLs requested, then the tree walked, then the document assembled:
\* the request for image URLs carries the ids collected from the selected
\* frame and comes before the walk; the id of every node whose background
\* resolution reaches the image branch during the walk was in that request;
\* and the document is assembled from the walk's output with every font the
\* walk recorded in fonts_used.  (SpecRun)
C18_CollectResolveWalkAssemble ==
    LET walk == C18_When(Printed("Generating HTML..."))
        resolve == C18_When(Event("GET", base_url \o "/images/" \o arg.file_key
                                             \o "?ids=" \o Join(",", image_nodes)))
    IN  /\ \A k \in 1..Len(events) :
               events[k].kind = "GET" /\ StartsWith(events[k].text, base_url \o "/images/")
                   => /\ k = resolve
                      /\ image_nodes # <<>>
                      /\ image_nodes = collect_image_nodes(file_data, selected_frame)
                      /\ walk = 0 \/ k < walk
        /\ walk # 0 =>
               /\ image_nodes = collect_image_nodes(file_data, selected_frame)
               /\ \A i \in C18_Built(C18_Walk.calls) :
                      C18_ReachesImage(file_data[i])
                          => /\ file_data[i].id \in C18_IdsOf(image_nodes)
                             /\ resolve # 0 /\ resolve < walk
               /\ fonts_used = C18_Walk.fonts
        /\ html # NoneValue =>
               /\ walk # 0
               /\ body_html = C18_Walk.out.value
               /\ \E order \in Orderings(fonts_used) :
                      html = build_complete_html(
                                 order, body_html,
                                 Get(BBoxOf(file_data[selected_frame]), "width", 800),
                                 Get(BBoxOf(file_data[selected_frame]), "height", 600))
               /\ \A i \in C18_Built(C18_Walk.calls) :
                      file_data[i].type = "TEXT"
                          => /\ file_data[i].style.fontFamily \in fonts_used
                             /\ Contains(html, "family=" \o ReplaceSpaces(
                                                   file_data[i].style.fontFamily))
                                \/ Contains(html, "|" \o ReplaceSpaces(
                                                   file_data[i].style.fontFamily))

\* a run that wrote a document of a frame with an image rectangle and a text
\* in an "Open Sans" font below it, the image resolved to its URL
C18_Witness ==
    /\ pc = "exited" /\ exit_code = 0 /\ html # NoneValue
    /\ selected_frame = 1
    /\ file_data[2].type = "RECTANGLE" /\ file_data[3].type = "TEXT"
    /\ Children(file_data, 1) = <<2, 3>>
    /\ image_nodes = <<file_data[2].id>>
    /\ Has(image_fills, file_data[2].id)
    /\ Contains(html, "background: url('" \o ImageUrl(file_data[2].id) \o "')")
    /\ fonts_used = {FontOf(3)}
    /\ Contains(html, "family=" \o ReplaceSpaces(FontOf(3)))

\* C19: in every call of generate_html on a converter, the image map the
\* walker uses holds only entries resolved for the ids this call collected
\* from its selected frame: an id the map held from an earlier call that
\* this call did not collect resolves to the placeholder paint "#cccccc",
\* not to the earlier URL.  (SpecReuse)
C19_RunsIndependent ==
    pc = "node_to_html" =>
        /\ DOMAIN image_fills \subseteq C18_IdsOf(image_nodes)
        /\ \A id \in DOMAIN ret.earlier :
               id \notin C18_IdsOf(image_nodes)
                   => get_fills_css(image_fills, <<[type |-> "IMAGE"]>>, id)
                          = Return("#cccccc")

====
